---- MODULE Spec2Model ----
(***************************************************************************)
(* HEX-AVG antivirus: a state-machine model of the scan orchestrator       *)
(* (src/src/core), the background service (src/src/services), the cloud    *)
(* hash-lookup client (src/src/cloud), the update manager                  *)
(* (src/src/update), the scan scheduler (src/src/scheduler), the file      *)
(* monitor's event handler and its polling fallback                        *)
(* (src/src/monitoring), directory traversal and the thread manager        *)
(* (src/src/core), and the signature store and the advanced heuristic      *)
(* engine (src/src/detection).                                             *)
(*                                                                         *)
(* Each subsystem has its own specification (SpecScan, SpecService,        *)
(* SpecCloud, SpecUpdate, SpecScheduler, SpecMonitor, SpecPoll,            *)
(* SpecTraverse, SpecPool, SpecThreads, SpecSignature, SpecHeuristic,      *)
(* SpecJobs) over the shared variables; the variables of the other         *)
(* subsystems stay at their initial values.                                *)
(***************************************************************************)
EXTENDS Integers, Sequences, FiniteSets, TLC

VARIABLES
    fs,               \* the scanned directory: file name -> kind of content, or "absent"
    scan_stats,       \* HEXAVGScanner.scan_stats
    detectors,        \* the detector slots of the scanner that are not None
    enable_heuristics,\* HEXAVGScanner.enable_heuristics
    enable_yara,      \* HEXAVGScanner.enable_yara
    tm_stats,         \* ThreadManager.stats of the scanner's thread manager
    trav_stats,       \* FileTraversal.stats of the scanner's traversal
    last,             \* what the last scan()/quick_scan()/full_scan() call did and returned
    os_bound,         \* windows_service: whether the module global `os` is bound
    watchdog,         \* WATCHDOG_AVAILABLE
    svc_running,      \* HEXAVGWindowsService.running
    pid_file,         \* whether the pid marker file exists
    svc_scanner,      \* whether HEXAVGWindowsService.scanner is set (not None)
    monitor_running,  \* WindowsFileMonitor.running of the service's monitor
    sched_running,    \* ScanScheduler.running of the service's scheduler
    stop_event,       \* HEXAVGWindowsService.stop_event
    svc_stats,        \* HEXAVGWindowsService.stats
    alerts,           \* the lines appended to alerts.log (their severities)
    svc_last,         \* what the last file-created event found and did
    watch_paths,      \* HEXAVGWindowsService.config['watch_paths']
    saved_paths,      \* watch_paths of service_config.json
    monitor_paths,    \* the directories the service's monitor watches
    leaked,           \* monitors and schedulers left running and no longer referenced
    svc_call,         \* what the last start(), stop() or configure() call did
    cl_enabled,       \* CloudSyncClient.enabled
    cl_offline,       \* CloudSyncClient.offline_mode
    cl_cache,         \* CloudSyncClient.cache['hashes']: key -> cached value
    cl_cache_file,    \* the 'hashes' of cloud_cache.json, or NoFile
    cl_last,          \* what the last call on the cloud client did and returned
    inst,             \* the installation under base_dir: path -> content
    backup,           \* base_dir/.backup: whether it exists, and its files
    temp,             \* base_dir/.temp: the download and the extracted files
    consent_given,    \* UpdateManager.config['consent_given']
    updates,          \* the number of update_tool calls made
    upd_last,         \* what the last update_tool call did and returned
    sch_running,      \* ScanScheduler.running
    sch_stop_event,   \* ScanScheduler.stop_event
    sch_config,       \* ScanScheduler.config['scheduled_scans']
    sch_jobs,         \* the jobs registered with the schedule module, in order
    sch_threads,      \* the clock-loop threads: thread id -> where it is
    sch_thread,       \* ScanScheduler.scheduler_thread, "none" for None
    sch_runs,         \* ScanScheduler.stats['scheduled_scans_run']
    sch_totals,       \* ScanScheduler.stats: total_files_scanned and threats_found
    sch_fire,         \* what the last firing of a job scanned and added to the statistics
    sch_last,         \* what the last start, stop or run_scan_now call did and returned
    mon_callbacks,    \* WindowsFileMonitor: which of on_file_created/modified/deleted are set
    mon_stats,        \* WindowsFileMonitor.stats
    mon_events,       \* the number of events watchdog has dispatched to the handler
    mon_last,         \* what the handler did with the last event
    walk_levels,      \* the directory tree: the levels below the root that hold a file
    walk_max_depth,   \* FileTraversal.max_depth
    walk_yielded,     \* what traverse(root) yielded, once it was called
    thread_config,    \* HEXAVGConfig.MIN_THREADS, MAX_THREADS, DEFAULT_THREADS
    pool_last,        \* the last ThreadManager(max_workers=T) and its max_workers
    sig_eicar,        \* whether signatures/eicar.json exists
    sig_store,        \* the rows of the signatures table, in insertion order
    sig_doc,          \* the JSON document export_signatures() wrote, if any
    sig_round,        \* the counts of the last export and of the import into a fresh store
    sig_built,        \* the row counts around the last construction over the kept store
    heur_file,        \* the file handed to analyze_file: what its first 1 MiB holds
    heur_result,       \* what analyze_file did with it
    job_config,       \* the service configuration (service_config.json)
    job_started,      \* whether the service was started
    job_registered,    \* the jobs registered with the schedule module
    poll_disk,        \* the files below the watched directory as stat() sees them
    file_states,      \* SimpleFileMonitor.file_states
    poll_last,         \* the last pass of the monitor loop: snapshots, callbacks made
    tmgr_stats,       \* ThreadManager.stats of a manager called directly
    tmgr_submitted,   \* the tasks handed to that manager since construction
    tmgr_last         \* its last call: operation, items, result list

scanVars == <<fs, scan_stats, detectors, enable_heuristics, enable_yara,
              tm_stats, trav_stats, last>>

svcVars == <<os_bound, watchdog, svc_running, pid_file, svc_scanner, monitor_running,
             sched_running, stop_event, svc_stats, alerts, svc_last,
             watch_paths, saved_paths, monitor_paths, leaked, svc_call>>

cloudVars == <<cl_enabled, cl_offline, cl_cache, cl_cache_file, cl_last>>

updVars == <<inst, backup, temp, consent_given, updates, upd_last>>

schVars == <<sch_running, sch_stop_event, sch_config, sch_jobs, sch_threads,
             sch_thread, sch_runs, sch_totals, sch_fire, sch_last>>

\* the variables of the subsystems modelled after the update manager
monVars == <<mon_callbacks, mon_stats, mon_events, mon_last>>

walkVars == <<walk_levels, walk_max_depth, walk_yielded>>

poolVars == <<thread_config, pool_last>>

sigVars == <<sig_eicar, sig_store, sig_doc, sig_round, sig_built>>

heurVars == <<heur_file, heur_result>>

jobVars == <<job_config, job_started, job_registered>>

pollVars == <<poll_disk, file_states, poll_last>>

tmgrVars == <<tmgr_stats, tmgr_submitted, tmgr_last>>

auxVars == <<monVars, walkVars, poolVars, sigVars, heurVars, jobVars, pollVars, tmgrVars>>

extVars == <<schVars, auxVars>>

vars == <<scanVars, svcVars, cloudVars, updVars, extVars>>

----------------------------------------------------------------------------
(* Bounds *)

\* scan() is not called once scan_stats.files_scanned has reached this value
MaxFilesScanned == 4

----------------------------------------------------------------------------
(* The file system seen by the scanner *)

\* the directory that is scanned, and the regular files that may be in it
ScanDir == "dir"
Files == {"a.exe", "b.zip"}
MissingPath == "missing"
Paths == {ScanDir, MissingPath} \cup Files

\* what a file holds: the content decides what each detector says of it
Kinds == {"clean", "eicar", "susp", "huge"}
Absent == "absent"

Ext(f) == IF f = "a.exe" THEN "exe" ELSE IF f = "b.zip" THEN "zip" ELSE ""

\* config.QUICK_SCAN_SKIP_EXTENSIONS: archive-like extensions skipped by a quick scan
QUICK_SCAN_SKIP_EXTENSIONS == {"zip"}

\* Path.exists() and Path.is_dir() on a path, in file system g
PathExists(g, p) == p = ScanDir \/ (p \in Files /\ g[p] # Absent)
PathIsDir(p) == p = ScanDir

\* the detectors' verdicts on a content kind
SigHit(k) == k = "eicar"
HeurHit(k) == k \in {"susp", "eicar"}
YaraHit(k) == k = "eicar"

\* file_size > HEXAVGConfig.MAX_SCAN_FILE_SIZE
TooLarge(k) == k = "huge"

----------------------------------------------------------------------------
(* Sequences *)

RECURSIVE Perms(_)
\* all the orders in which the elements of S can be listed
Perms(S) ==
    IF S = {} THEN {<<>>}
    ELSE UNION {{<<x>> \o q : q \in Perms(S \ {x})} : x \in S}

\* how many elements of sequence s satisfy P
CountIf(s, P(_)) == Cardinality({i \in DOMAIN s : P(s[i])})

Range(s) == {s[i] : i \in DOMAIN s}

----------------------------------------------------------------------------
(* FileTraversal.traverse / get_files_list on the scan path *)

\* the outcome of the validation at the top of traverse()
TraverseError(g, root) ==
    IF ~PathExists(g, root) THEN "FileNotFoundError"
    ELSE IF ~PathIsDir(root) THEN "ValueError"
    ELSE "none"

\* the files traverse() yields for the directory, given the skipped extensions
TraverseFiles(g, skip) ==
    {f \in Files : g[f] # Absent /\ Ext(f) \notin skip}

\* files of the directory that traverse() counts as skipped
TraverseSkipped(g, skip) ==
    {f \in Files : g[f] # Absent /\ Ext(f) \in skip}

----------------------------------------------------------------------------
(* HEXAVGScanner._scan_file: the per-file task *)

\* status after the signature step
StatusAfterSignature(k, det) ==
    IF "signature" \in det /\ SigHit(k) THEN "infected" ELSE "clean"

\* status after the heuristic step: a suspicious verdict overwrites the status
StatusAfterHeuristic(st, k, det, heur) ==
    IF heur /\ "heuristic" \in det /\ HeurHit(k) THEN "suspicious" ELSE st

\* status after the YARA step
StatusAfterYara(st, k, det, yara) ==
    IF yara /\ "yara" \in det /\ YaraHit(k) THEN "infected" ELSE st

ThreatsOf(k, det, heur, yara) ==
    (IF "signature" \in det /\ SigHit(k) THEN <<"signature">> ELSE <<>>)
    \o (IF heur /\ "heuristic" \in det /\ HeurHit(k) THEN <<"heuristic">> ELSE <<>>)
    \o (IF yara /\ "yara" \in det /\ YaraHit(k) THEN <<"yara">> ELSE <<>>)

\* the result of _scan_file for a file that is there when the task runs
ScanFileChecked(f, k, det, heur, yara) ==
    IF TooLarge(k)
    THEN [file_path |-> f, status |-> "skipped", threats |-> <<>>, error |-> "",
          has_threats |-> TRUE]
    ELSE [file_path |-> f,
          status |-> StatusAfterYara(
                        StatusAfterHeuristic(StatusAfterSignature(k, det), k, det, heur),
                        k, det, yara),
          threats |-> ThreatsOf(k, det, heur, yara), error |-> "",
          has_threats |-> TRUE]

\* the synthetic result scan_files appends in its except branch: it has no
\* 'threats' key
ErrorResult(f) ==
    [file_path |-> f, status |-> "error", threats |-> <<>>, error |-> "raised",
     has_threats |-> FALSE]

\* _scan_file without its try/except: the exception of stat() leaves the task
ScanFileResultUncaught(f, k, det, heur, yara) ==
    IF k = Absent THEN ErrorResult(f) ELSE ScanFileChecked(f, k, det, heur, yara)

\* the result dictionary of _scan_file for file f whose content, when the task
\* runs, is k (Absent: the file has disappeared since the traversal, stat()
\* raises and the except branch records the message)
ScanFileResult(f, k, det, heur, yara) ==
    IF k = Absent
    THEN [file_path |-> f, status |-> "error", threats |-> <<>>,
          error |-> "No such file", has_threats |-> TRUE]
    ELSE ScanFileChecked(f, k, det, heur, yara)

----------------------------------------------------------------------------
(* ThreadManager.scan_files *)

RECURSIVE ScanFilesResults(_, _, _, _, _, _)
\* the result list of scan_files: the tasks complete in the order `order`; the
\* content of file f when its task runs is g[f]; the progress callback raises
\* on the paths of cbFail. A task result is appended before the callback is
\* called, and the except branch then appends a second, synthetic result.
ScanFilesResults(order, g, cbFail, det, heur, yara) ==
    IF order = <<>> THEN <<>>
    ELSE LET f == Head(order)
         IN  <<ScanFileResult(f, g[f], det, heur, yara)>>
             \o (IF f \in cbFail THEN <<ErrorResult(f)>> ELSE <<>>)
             \o ScanFilesResults(Tail(order), g, cbFail, det, heur, yara)

\* ThreadManager.stats after scan_files over n paths of which nFail callbacks raised
ScanFilesStats(st, n, nFail) ==
    [total_tasks |-> n,
     completed_tasks |-> st.completed_tasks + n,
     failed_tasks |-> st.failed_tasks + nFail]

----------------------------------------------------------------------------
(* HEXAVGScanner._process_scan_results *)

\* the update of scan_stats for one result that has a 'threats' key
ProcessOne(st, r) ==
    [files_scanned |-> st.files_scanned + 1,
     files_skipped |-> st.files_skipped
                       + (IF r.status \in {"skipped", "error"} THEN 1 ELSE 0),
     threats_found |-> st.threats_found + (IF r.threats # <<>> THEN 1 ELSE 0),
     threats |-> IF r.threats # <<>> THEN Append(st.threats, r) ELSE st.threats]

\* the update for a result without 'threats': the counters are incremented and
\* then result['threats'] raises KeyError
ProcessBroken(st, r) ==
    [st EXCEPT !.files_scanned = @ + 1,
               !.files_skipped = @ + (IF r.status \in {"skipped", "error"} THEN 1 ELSE 0)]

RECURSIVE ProcessScanResults(_, _)
\* scan_stats after the loop over the results, and whether the loop raised
ProcessScanResults(st, results) ==
    IF results = <<>> THEN [stats |-> st, raised |-> FALSE]
    ELSE IF ~Head(results).has_threats
    THEN [stats |-> ProcessBroken(st, Head(results)), raised |-> TRUE]
    ELSE ProcessScanResults(ProcessOne(st, Head(results)), Tail(results))

----------------------------------------------------------------------------
(* HEXAVGScanner: construction, scan(), reset_statistics() *)

EmptyScanStats ==
    [files_scanned |-> 0, files_skipped |-> 0, threats_found |-> 0, threats |-> <<>>]

EmptyTmStats == [total_tasks |-> 0, completed_tasks |-> 0, failed_tasks |-> 0]

EmptyTravStats == [files_scanned |-> 0, files_skipped |-> 0]

NoScan ==
    [target |-> "none", quick |-> FALSE, outcome |-> "none",
     before |-> EmptyScanStats, returned |-> EmptyScanStats, results |-> <<>>,
     det |-> {}]

\* HEXAVGScanner.__init__: every detector slot is None
ScannerInit ==
    /\ scan_stats = EmptyScanStats
    /\ detectors = {}
    /\ tm_stats = EmptyTmStats
    /\ trav_stats = EmptyTravStats
    /\ last = NoScan

\* the skip list scan() passes to the traversal
SkipExtensions(quick) == IF quick THEN QUICK_SCAN_SKIP_EXTENSIONS ELSE {}

\* FileTraversal.stats after a traversal of the directory
TraverseStats(st, g, skip) ==
    [files_scanned |-> st.files_scanned + Cardinality(TraverseFiles(g, skip)),
     files_skipped |-> st.files_skipped + Cardinality(TraverseSkipped(g, skip))]

\* what scan() hands back: the scan_stats dictionary itself
ScanReturn(st) == st

\* the paths on which the progress callback of scan() raises: no caller passes
\* one, and the default ProgressCallback raises on none
ScanCallbackFailures == {}

\* scan(target, quick_scan=quick): the files of `vanish` disappear between the
\* traversal and their task; the tasks complete in some order
Scan(target, quick) ==
    /\ trav_stats.files_scanned + trav_stats.files_skipped
          + Cardinality({f \in Files : fs[f] # Absent}) <= MaxFilesScanned
    /\ IF TraverseError(fs, target) # "none"
       THEN /\ last' = [NoScan EXCEPT !.target = target, !.quick = quick,
                                      !.outcome = TraverseError(fs, target),
                                      !.before = scan_stats,
                                      !.returned = scan_stats, !.det = detectors]
            /\ UNCHANGED <<fs, scan_stats, tm_stats, trav_stats>>
       ELSE LET skip == SkipExtensions(quick)
                listed == TraverseFiles(fs, skip)
                cbFail == ScanCallbackFailures
            IN  \E vanish \in SUBSET listed :
                \E order \in Perms(listed) :
                  LET g == [f \in Files |-> IF f \in vanish THEN Absent ELSE fs[f]]
                      results == ScanFilesResults(order, g, cbFail, detectors,
                                                  enable_heuristics, enable_yara)
                      p == ProcessScanResults(scan_stats, results)
                  IN  /\ fs' = g
                      /\ trav_stats' = TraverseStats(trav_stats, fs, skip)
                      /\ tm_stats' = ScanFilesStats(tm_stats, Cardinality(listed),
                                                    Cardinality(cbFail))
                      /\ scan_stats' = p.stats
                      /\ last' = [target |-> target, quick |-> quick,
                                  outcome |-> IF p.raised THEN "KeyError" ELSE "ok",
                                  before |-> scan_stats,
                                  returned |-> ScanReturn(p.stats),
                                  results |-> results, det |-> detectors]
    /\ UNCHANGED <<detectors, enable_heuristics, enable_yara>>

\* HEXAVGScanner.reset_statistics
ResetStatistics ==
    /\ scan_stats' = EmptyScanStats
    /\ tm_stats' = EmptyTmStats
    /\ trav_stats' = EmptyTravStats
    /\ UNCHANGED <<fs, detectors, enable_heuristics, enable_yara, last>>

\* the composition root assigns pre-constructed detectors to the scanner's slots
AttachDetectors(D) ==
    /\ detectors = {}
    /\ detectors' = D
    /\ UNCHANGED <<fs, scan_stats, enable_heuristics, enable_yara, tm_stats,
                   trav_stats, last>>

\* the detector sets a composition root attaches: signature detection alone, or
\* every detector
DetectorSets == {{"signature"}, {"signature", "heuristic", "yara"}}

----------------------------------------------------------------------------
(* HEXAVGWindowsService: start(), stop() and the file-created handler *)

EmptySvcStats == [files_scanned |-> 0, threats_blocked |-> 0]

NoEvent ==
    [path |-> "none", eligible |-> FALSE, before |-> EmptySvcStats,
     after |-> EmptySvcStats, alerts_before |-> 0, alerts_after |-> 0,
     found |-> FALSE, scan |-> "none"]

\* the watch-path lists of the configuration: the directory with a path that
\* does not exist, a path that is a file or does not exist
WatchPathLists == {{ScanDir, MissingPath}, {"a.exe"}}

\* watch_paths of the configuration the service loads
DefaultWatchPaths == {ScanDir, MissingPath}

\* the record before any call: the service as __init__ leaves it
NoServiceCall ==
    [op |-> "none", arg |-> "none", returned |-> FALSE,
     before |-> [running |-> FALSE, pid_file |-> FALSE, monitor_running |-> FALSE,
                 monitor_paths |-> {}, sched_running |-> FALSE,
                 leaked |-> [monitors |-> 0, schedulers |-> 0],
                 watch_paths |-> {}, saved_paths |-> {}],
     after |-> [running |-> FALSE, pid_file |-> FALSE, monitor_running |-> FALSE,
                monitor_paths |-> {}, sched_running |-> FALSE,
                leaked |-> [monitors |-> 0, schedulers |-> 0],
                watch_paths |-> {}, saved_paths |-> {}]]

\* HEXAVGWindowsService.__init__
ServiceInit ==
    /\ svc_running = FALSE
    /\ pid_file = FALSE
    /\ svc_scanner = FALSE
    /\ monitor_running = FALSE
    /\ sched_running = FALSE
    /\ stop_event = FALSE
    /\ svc_stats = EmptySvcStats
    /\ alerts = <<>>
    /\ svc_last = NoEvent
    /\ watch_paths = DefaultWatchPaths
    /\ saved_paths = DefaultWatchPaths
    /\ monitor_paths = {}
    /\ leaked = [monitors |-> 0, schedulers |-> 0]
    /\ svc_call = NoServiceCall

\* HEXAVGWindowsService.paused: set to False by __init__ and by nothing else
ServicePaused == FALSE

\* _initialize_components: a new scanner (4 threads, heuristics on, YARA off)
NewServiceScanner ==
    /\ scan_stats' = EmptyScanStats
    /\ detectors' = {}
    /\ tm_stats' = EmptyTmStats
    /\ trav_stats' = EmptyTravStats
    /\ last' = NoScan
    /\ enable_heuristics' = TRUE
    /\ enable_yara' = FALSE
    /\ svc_scanner' = TRUE

\* _validate_paths: the paths that exist and are directories
ValidPaths(g, P) == {q \in P : PathExists(g, q) /\ PathIsDir(q)}

\* WindowsFileMonitor.start() starting whatever the paths are
MonitorStartsAlways(g, P) == watchdog

\* WindowsFileMonitor.start(): watchdog is available and a path is valid
MonitorStarts(g, P) == watchdog /\ ValidPaths(g, P) # {}

\* what start(), stop() and configure() look at and leave
ServiceState(running, pid, mon, paths, sched, lk, cfg, saved) ==
    [running |-> running, pid_file |-> pid, monitor_running |-> mon,
     monitor_paths |-> paths, sched_running |-> sched, leaked |-> lk,
     watch_paths |-> cfg, saved_paths |-> saved]

\* the record of a call, from the state before it and the state it leaves
ServiceCall(op, arg, returned) ==
    [op |-> op, arg |-> arg, returned |-> returned,
     before |-> ServiceState(svc_running, pid_file, monitor_running, monitor_paths,
                             sched_running, leaked, watch_paths, saved_paths),
     after |-> ServiceState(svc_running', pid_file', monitor_running', monitor_paths',
                            sched_running', leaked', watch_paths', saved_paths')]

\* the components a replaced monitor and scheduler leave running
LeakedWith(lk, mon, sched) ==
    [monitors |-> lk.monitors + (IF mon THEN 1 ELSE 0),
     schedulers |-> lk.schedulers + (IF sched THEN 1 ELSE 0)]

\* components are not replaced once this many of a kind are left running
MaxLeaked == 1

\* start(): `exc` is where the try block raises ("none": nowhere, "init": in
\* _initialize_components, "scheduler": in _start_scheduler)
Start(exc) ==
    /\ UNCHANGED <<fs, os_bound, watchdog, stop_event, svc_stats, alerts, svc_last,
                   watch_paths, saved_paths>>
    /\ IF svc_running
       THEN UNCHANGED <<scan_stats, detectors, enable_heuristics, enable_yara, tm_stats,
                        trav_stats, last, svc_running, pid_file, svc_scanner,
                        monitor_running, sched_running, monitor_paths, leaked>>
       ELSE /\ pid_file' = TRUE
            /\ IF ~os_bound
               THEN \* os.getpid() raises NameError out of start()
                    /\ svc_running' = TRUE
                    /\ UNCHANGED <<scan_stats, detectors, enable_heuristics, enable_yara,
                                   tm_stats, trav_stats, last, svc_scanner,
                                   monitor_running, sched_running, monitor_paths, leaked>>
               ELSE IF exc = "init"
               THEN /\ svc_running' = FALSE
                    /\ UNCHANGED <<scan_stats, detectors, enable_heuristics, enable_yara,
                                   tm_stats, trav_stats, last, svc_scanner,
                                   monitor_running, sched_running, monitor_paths, leaked>>
               ELSE /\ NewServiceScanner
                    /\ leaked' = LeakedWith(leaked, monitor_running, sched_running)
                    /\ leaked'.monitors <= MaxLeaked /\ leaked'.schedulers <= MaxLeaked
                    /\ monitor_running' = MonitorStarts(fs, watch_paths)
                    /\ monitor_paths' = IF monitor_running'
                                        THEN ValidPaths(fs, watch_paths) ELSE {}
                    /\ sched_running' = (exc = "none")
                    /\ svc_running' = (exc = "none")
    /\ svc_call' = ServiceCall("start", exc, svc_running' /\ ~svc_running /\ os_bound)

\* stop()
Stop ==
    /\ UNCHANGED <<scanVars, os_bound, watchdog, svc_scanner, svc_stats, alerts, svc_last,
                   watch_paths, saved_paths, leaked>>
    /\ IF ~svc_running
       THEN UNCHANGED <<svc_running, pid_file, monitor_running, sched_running, stop_event,
                        monitor_paths>>
       ELSE /\ svc_running' = FALSE
            /\ stop_event' = TRUE
            /\ monitor_running' = FALSE
            /\ monitor_paths' = {}
            /\ sched_running' = FALSE
            /\ pid_file' = FALSE
    /\ svc_call' = ServiceCall("stop", "none", svc_running)

\* configure(watch_paths=P); `written` is whether _save_config could write the
\* file (it swallows the error when it could not)
Configure(P, written) ==
    /\ UNCHANGED <<fs, os_bound, watchdog, svc_running, pid_file, stop_event, svc_stats,
                   alerts, svc_last>>
    /\ watch_paths' = P
    /\ saved_paths' = IF written THEN P ELSE saved_paths
    /\ IF svc_running
       THEN /\ NewServiceScanner
            /\ leaked' = LeakedWith(leaked, FALSE, sched_running)
            /\ leaked'.schedulers <= MaxLeaked
            /\ monitor_running' = MonitorStarts(fs, P)
            /\ monitor_paths' = IF monitor_running' THEN ValidPaths(fs, P) ELSE {}
            /\ sched_running' = FALSE
       ELSE UNCHANGED <<scanVars, svc_scanner, monitor_running, monitor_paths,
                        sched_running, leaked>>
    /\ svc_call' = ServiceCall("configure", P, TRUE)

\* run() up to its first evaluation of the loop condition, called as
\* ConsoleServiceWrapper.run calls it, after a start() that returned True: it
\* returns at once when the service is not running or the stop event is set,
\* and sleeps otherwise
RunBlocks == svc_running /\ ~stop_event

Run ==
    /\ svc_call.op = "start"
    /\ svc_call.returned
    /\ UNCHANGED <<scanVars, os_bound, watchdog, svc_running, pid_file, svc_scanner,
                   monitor_running, sched_running, stop_event, svc_stats, alerts,
                   svc_last, watch_paths, saved_paths, monitor_paths, leaked>>
    /\ svc_call' = ServiceCall("run", "start", RunBlocks)

\* _is_executable: the extension is one of the executable extensions
IsExecutable(f) == Ext(f) \in {"exe", "dll", "sys", "bat", "cmd", "ps1", "vbs", "js",
                               "jar", "scr", "pif", "com"}

\* _should_scan_file
ShouldScanFile(g, f) == PathExists(g, f) /\ ~TooLarge(g[f]) /\ IsExecutable(f)

\* whether the handler gets as far as scanning the file
HandlerScans(g, f) == svc_running /\ ~ServicePaused /\ ShouldScanFile(g, f)

\* stats after _scan_file and the threat check of the handler, given the
\* outcome of quick_scan and the threats_found it returned
StatsAfterScan(st, outcome, found) ==
    [files_scanned |-> st.files_scanned + (IF outcome = "ok" THEN 1 ELSE 0),
     threats_blocked |-> st.threats_blocked + (IF outcome = "ok" /\ found > 0 THEN 1 ELSE 0)]

\* _on_file_created(f), called by the running monitor for a file event
OnFileCreated(f) ==
    /\ monitor_running
    /\ UNCHANGED <<os_bound, watchdog, svc_running, pid_file, svc_scanner,
                   monitor_running, sched_running, stop_event, watch_paths,
                   saved_paths, monitor_paths, leaked, svc_call>>
    /\ IF HandlerScans(fs, f) /\ svc_scanner
       THEN /\ Scan(f, TRUE)
            /\ LET found == IF last'.outcome = "ok" THEN last'.returned.threats_found ELSE 0
                   st == StatsAfterScan(svc_stats, last'.outcome, found)
                   al == IF st.threats_blocked > svc_stats.threats_blocked
                         THEN Append(alerts, "high") ELSE alerts
               IN  /\ svc_stats' = st
                   /\ alerts' = al
                   /\ svc_last' = [path |-> f, eligible |-> TRUE, before |-> svc_stats,
                                   after |-> st, alerts_before |-> Len(alerts),
                                   alerts_after |-> Len(al), found |-> found > 0,
                                   scan |-> last'.outcome]
       ELSE /\ UNCHANGED <<scanVars, svc_stats, alerts>>
            /\ svc_last' = [NoEvent EXCEPT !.path = f, !.eligible = HandlerScans(fs, f),
                                           !.before = svc_stats, !.after = svc_stats,
                                           !.alerts_before = Len(alerts),
                                           !.alerts_after = Len(alerts),
                                           !.scan = "AttributeError"]

----------------------------------------------------------------------------
(* Interactive consent: consent.lower() in ['yes', 'y'] *)

\* the answers typed at a prompt, as sequences of characters
Answers ==
    { <<"y", "e", "s">>, <<"y">>, <<"Y", "E", "S">>, <<"Y">>, <<"Y", "e", "s">>,
      <<"n", "o">>, <<"n">>, <<>>, <<"y", "e">>, <<"y", "e", "s", " ">>,
      <<"y", "e", "s", "s">> }

\* str.lower() on one character
LowerChar(c) ==
    CASE c = "Y" -> "y"
      [] c = "E" -> "e"
      [] c = "S" -> "s"
      [] c = "N" -> "n"
      [] c = "O" -> "o"
      [] OTHER -> c

\* str.lower()
Lower(a) == [i \in DOMAIN a |-> LowerChar(a[i])]

\* the consent test with a prefix match instead of the list membership
IsAffirmativePrefix(a) == Len(a) > 0 /\ LowerChar(a[1]) = "y"

\* consent.lower() in ['yes', 'y']
IsAffirmative(a) == Lower(a) \in { <<"y", "e", "s">>, <<"y">> }

----------------------------------------------------------------------------
(* CloudSyncClient *)

\* the files that are queried and the SHA-256 of their content; the content of
\* "locked" cannot be read, and _calculate_hashes leaves its hashes empty
CloudFiles == {"trojan", "good", "note", "copy", "locked"}

HASH_MALICIOUS == "0000000000000000000000000000000000000000000000000000000000000001"
HASH_BENIGN == "1111111111111111111111111111111111111111111111111111111111111111"
HASH_OTHER == "9f86d081884c7d659a2feaa0c55ad015a3bf4f1b2b0b822cd15d6c15b0f00a08"

\* _calculate_hashes(file)['sha256']
Sha256(f) ==
    CASE f = "trojan" -> HASH_MALICIOUS
      [] f = "good" -> HASH_BENIGN
      [] f \in {"note", "copy"} -> HASH_OTHER
      [] OTHER -> ""

\* the keys looked up in cache['hashes']: a string, or a Path object, which
\* is equal to no string
StrKey(h) == <<"str", h>>
PathKey(f) == <<"Path", f>>

\* _simulate_cloud_response(hash)['status']
SimulateCloudResponse(h) ==
    IF h = HASH_MALICIOUS THEN "malicious"
    ELSE IF h = HASH_BENIGN THEN "benign"
    ELSE "unknown"

\* Dictionaries are written as the sequence of their 'status' values from the
\* outside in: <<"unknown">> is the dictionary _simulate_cloud_response
\* returns, <<"success", "unknown">> the dictionary _query_cloud returns.
NoResult == <<>>

\* _query_cloud: the simulated lookup raises nothing
QueryCloud(h) ==
    [status |-> "success", cached |-> FALSE, cloud |-> TRUE,
     result |-> <<SimulateCloudResponse(h)>>]

\* the value _cache_hash stores for a lookup result: the whole dictionary
CachedValue(cloud_result) == <<cloud_result.status>> \o cloud_result.result

\* cache['hashes'] is written as the set of its <<key, value>> items
CacheKeys(c) == {e[1] : e \in c}
CacheGet(c, key) == (CHOOSE e \in c : e[1] = key)[2]
CachePut(c, key, value) == {e \in c : e[1] # key} \cup {<<key, value>>}

\* _query_cache(key) on cache c
QueryCache(c, key) ==
    IF key \in CacheKeys(c)
    THEN [status |-> "found", cached |-> TRUE, cloud |-> FALSE,
          result |-> CacheGet(c, key)]
    ELSE [status |-> "not_found", cached |-> TRUE, cloud |-> FALSE, result |-> NoResult]

DisabledResponse ==
    [status |-> "disabled", cached |-> FALSE, cloud |-> FALSE, result |-> NoResult]

\* cloud_cache.json: whether it exists, and its 'hashes'
EmptyCache == {}
NoFile == [exists |-> FALSE, hashes |-> EmptyCache]
CacheFile(c) == [exists |-> TRUE, hashes |-> c]

\* the argument query_hash passes to _query_cache when the client is offline
OfflineKey(f) == PathKey(f)

\* is_enabled() ignoring the flag
IsEnabledAlways == TRUE

\* is_enabled()
IsEnabled == cl_enabled

\* _load_cache: the file's hashes, or an empty cache when there is no file
LoadCache(file) == IF file.exists THEN file.hashes ELSE EmptyCache

NoCall ==
    [op |-> "none", file |-> "none", notice |-> FALSE, answer |-> <<>>,
     resp |-> DisabledResponse, hashed |-> FALSE,
     looked_up |-> FALSE, cache_read |-> FALSE,
     enabled_before |-> FALSE, offline_before |-> FALSE,
     cache_before |-> EmptyCache, file_before |-> NoFile]

\* the record of a call that is not a query
Call(op) ==
    [NoCall EXCEPT !.op = op, !.enabled_before = cl_enabled,
                   !.offline_before = cl_offline, !.cache_before = cl_cache,
                   !.file_before = cl_cache_file]

\* CloudSyncClient.__init__() with the cache file found on disk
CloudInit(file) ==
    /\ cl_enabled = FALSE
    /\ cl_cache_file = file
    /\ cl_cache = LoadCache(file)
    /\ cl_offline = FALSE
    /\ cl_last = NoCall

\* enable(show_notice) with the answer typed at the prompt
Enable(show_notice, answer) ==
    /\ cl_enabled' = IF show_notice /\ ~IsAffirmative(answer) THEN cl_enabled ELSE TRUE
    /\ cl_last' = [Call("enable") EXCEPT !.notice = show_notice,
                                         !.answer = IF show_notice THEN answer ELSE <<>>]
    /\ UNCHANGED <<cl_offline, cl_cache, cl_cache_file>>

\* disable()
Disable ==
    /\ cl_enabled' = FALSE
    /\ cl_last' = Call("disable")
    /\ UNCHANGED <<cl_offline, cl_cache, cl_cache_file>>

\* set_offline_mode(offline)
SetOfflineMode(offline) ==
    /\ cl_offline' = offline
    /\ cl_last' = Call("set_offline_mode")
    /\ UNCHANGED <<cl_enabled, cl_cache, cl_cache_file>>

\* clear_cache()
ClearCache ==
    /\ cl_cache' = EmptyCache
    /\ cl_cache_file' = CacheFile(EmptyCache)
    /\ cl_last' = Call("clear_cache")
    /\ UNCHANGED <<cl_enabled, cl_offline>>

\* query_hash(f)
QueryHash(f) ==
    /\ UNCHANGED <<cl_enabled, cl_offline>>
    /\ IF ~IsEnabled
       THEN /\ cl_last' = [Call("query_hash") EXCEPT !.file = f]
            /\ UNCHANGED <<cl_cache, cl_cache_file>>
       ELSE IF cl_offline
       THEN /\ cl_last' = [Call("query_hash") EXCEPT
                               !.file = f, !.cache_read = TRUE,
                               !.resp = QueryCache(cl_cache, OfflineKey(f))]
            /\ UNCHANGED <<cl_cache, cl_cache_file>>
       ELSE LET h == Sha256(f)
                cache_result == QueryCache(cl_cache, StrKey(h))
                cloud_result == QueryCloud(h)
            IN  IF cache_result.status = "found"
                THEN /\ cl_last' = [Call("query_hash") EXCEPT
                                        !.file = f, !.hashed = TRUE, !.cache_read = TRUE,
                                        !.resp = cache_result]
                     /\ UNCHANGED <<cl_cache, cl_cache_file>>
                ELSE /\ cl_last' = [Call("query_hash") EXCEPT
                                        !.file = f, !.hashed = TRUE, !.cache_read = TRUE,
                                        !.looked_up = TRUE, !.resp = cloud_result]
                     /\ cl_cache' = CachePut(cl_cache, StrKey(h), CachedValue(cloud_result))
                     /\ cl_cache_file' = CacheFile(cl_cache')

----------------------------------------------------------------------------
(* UpdateManager *)

MaxUpdates == 2

\* files under base_dir; a file is Absent or has the content "v1" or "v2"
InstPaths == {"config.py", "src/scanner.py", "src/new.py"}

\* the item of files_to_backup a path belongs to, if any
BackupItem(p) ==
    CASE p = "config.py" -> "config.py"
      [] p \in {"src/scanner.py", "src/new.py"} -> "src/"
      [] OTHER -> "none"

\* files_to_backup of _create_backup, as far as the paths above fall in it
Essential(p) == BackupItem(p) # "none"

NoFiles == [p \in InstPaths |-> Absent]
FilesIn(m) == {p \in InstPaths : m[p] # Absent}

\* src.exists() for an item of files_to_backup
ItemExists(m, item) == \E p \in InstPaths : BackupItem(p) = item /\ m[p] # Absent

\* m with the files of n copied over it
CopyOver(m, n, which) ==
    [p \in InstPaths |-> IF p \in which /\ n[p] # Absent THEN n[p] ELSE m[p]]

\* _create_backup: an existing file is copied over its backup, an existing
\* directory replaces its backup, and what does not exist is passed over
CreateBackup(i, b) ==
    [exists |-> TRUE,
     files |-> [p \in InstPaths |->
                  IF Essential(p) /\ ItemExists(i, BackupItem(p))
                  THEN i[p] ELSE b.files[p]]]

\* _restore_backup: every file of the backup is copied over the installation
RestoreBackup(i, b) ==
    IF ~b.exists THEN i ELSE CopyOver(i, b.files, InstPaths)

NoTemp == [exists |-> FALSE, download |-> "none", extracted |-> NoFiles]

\* _cleanup: the temp directory is removed
Cleanup(t) == NoTemp

\* the update packages offered
Packages ==
    { [NoFiles EXCEPT !["config.py"] = "v2", !["src/new.py"] = "v2"],
      [NoFiles EXCEPT !["src/scanner.py"] = "v2"] }

\* where update_tool can fail
Failures ==
    {"none", "backup", "asset", "download", "verify", "format", "extract",
     "copy", "after"}

\* the consent gate letting every call through
NeedsPromptNever(force, consent) == FALSE

\* the consent gate: not force and not config.get('consent_given')
NeedsPrompt(force, consent) == ~force /\ ~consent

NoUpdate ==
    [op |-> "none", force |-> FALSE, consent |-> FALSE,
     answer |-> <<>>, returned |-> FALSE, copying |-> FALSE,
     backup_taken |-> FALSE, changed |-> {}, inst_before |-> NoFiles]

FreshInstall ==
    [p \in InstPaths |-> IF p = "src/new.py" THEN Absent ELSE "v1"]

\* UpdateManager.__init__() over an installation without update_config.json
UpdateInit(i) ==
    /\ inst = i
    /\ backup = [exists |-> FALSE, files |-> NoFiles]
    /\ temp = NoTemp
    /\ consent_given = FALSE
    /\ updates = 0
    /\ upd_last = NoUpdate

\* what a call changed, for the record of the call
Changed(i, b, t) ==
    (IF i # inst THEN {"installation"} ELSE {})
        \cup (IF b # backup THEN {"backup"} ELSE {})
        \cup (IF t # temp THEN {"temp"} ELSE {})

\* the state update_tool leaves and the value it returns, for the answer at the
\* prompt, the package, the place of the failure and, for a failure in the
\* copy loop of _install_update, the files copied before it
UpdateToolOutcome(force, answer, pkg, fail, done) ==
    LET b1 == IF fail = "backup"
              THEN [exists |-> TRUE, files |-> backup.files]
              ELSE CreateBackup(inst, backup)
        suffix == IF fail = "format" THEN "other" ELSE "zip"
        t_dir == [temp EXCEPT !.exists = TRUE]
        t_down == [t_dir EXCEPT !.download = suffix]
        t_ext == [t_down EXCEPT !.extracted = CopyOver(temp.extracted, pkg, InstPaths)]
        copied == IF fail = "copy" THEN done ELSE InstPaths
        i_inst == CopyOver(inst, t_ext.extracted, copied)
    IN  IF NeedsPrompt(force, consent_given) /\ ~IsAffirmative(answer)
        THEN [i |-> inst, b |-> backup, t |-> temp, ret |-> FALSE,
              copying |-> FALSE, taken |-> FALSE]
        ELSE IF fail \in {"backup", "asset"}
        THEN [i |-> inst, b |-> b1, t |-> temp, ret |-> FALSE,
              copying |-> FALSE, taken |-> fail = "asset"]
        ELSE IF fail = "download"
        THEN [i |-> inst, b |-> b1, t |-> t_dir, ret |-> FALSE,
              copying |-> FALSE, taken |-> TRUE]
        ELSE IF fail = "verify"
        THEN [i |-> inst, b |-> b1, t |-> t_down, ret |-> FALSE,
              copying |-> FALSE, taken |-> TRUE]
        ELSE IF fail \in {"format", "extract"}
        THEN [i |-> RestoreBackup(inst, b1), b |-> b1, t |-> t_down, ret |-> FALSE,
              copying |-> FALSE, taken |-> TRUE]
        ELSE IF fail = "copy"
        THEN [i |-> RestoreBackup(i_inst, b1), b |-> b1, t |-> t_ext, ret |-> FALSE,
              copying |-> TRUE, taken |-> TRUE]
        ELSE IF fail = "after"
        THEN [i |-> RestoreBackup(i_inst, b1), b |-> b1, t |-> Cleanup(t_ext),
              ret |-> FALSE, copying |-> TRUE, taken |-> TRUE]
        ELSE [i |-> i_inst, b |-> b1, t |-> Cleanup(t_ext), ret |-> TRUE,
              copying |-> TRUE, taken |-> TRUE]

\* update_tool(update_info, force)
UpdateTool(force, answer, pkg, fail, done) ==
    /\ updates < MaxUpdates
    /\ fail = "copy" => done # FilesIn(CopyOver(temp.extracted, pkg, InstPaths))
    /\ fail # "copy" => done = {}
    /\ LET o == UpdateToolOutcome(force, answer, pkg, fail, done)
           prompted == NeedsPrompt(force, consent_given)
       IN  /\ inst' = o.i
           /\ backup' = o.b
           /\ temp' = o.t
           /\ updates' = updates + 1
           /\ upd_last' =
                 [op |-> "update_tool", force |-> force, consent |-> consent_given,
                  answer |-> IF prompted THEN answer ELSE <<>>,
                  returned |-> o.ret, copying |-> o.copying,
                  backup_taken |-> o.taken,
                  changed |-> Changed(o.i, o.b, o.t), inst_before |-> inst]
    /\ UNCHANGED consent_given

\* enable_auto_update()
EnableAutoUpdate ==
    /\ consent_given' = TRUE
    /\ UNCHANGED <<inst, backup, temp, updates, upd_last>>

----------------------------------------------------------------------------
(* ScanScheduler *)

\* scans are not run once scheduled_scans_run has reached this value
MaxScheduledScans == 2

\* the clock-loop threads one scheduler creates, and "none" for no thread
ThreadIds == {"t1", "t2"}
ScanTypes == {"daily", "weekly"}

\* a scan type of the configuration passed to the constructor
Scheduled(type, enabled, paths) ==
    [enabled |-> enabled, paths |-> paths, quick |-> type = "daily"]

\* the configurations a scheduler is constructed with
Schedules ==
    { [daily |-> Scheduled("daily", d[1], d[2]), weekly |-> Scheduled("weekly", w, <<ScanDir>>)] :
        d \in {<<FALSE, <<>>>>, <<TRUE, <<ScanDir>>>>, <<TRUE, <<MissingPath>>>>,
               <<FALSE, <<ScanDir>>>>},
        w \in BOOLEAN }

\* scheduled_scans of a scheduler constructed without a configuration
NoSchedule ==
    [t \in ScanTypes |-> [enabled |-> FALSE, paths |-> <<>>, quick |-> t = "daily"]]

\* where a thread that was never created, or a thread waiting, is
NoThread == [pc |-> "none", job |-> "none", paths |-> <<>>, quick |-> FALSE]
Waiting == [NoThread EXCEPT !.pc = "waiting"]
Done == [NoThread EXCEPT !.pc = "done"]

\* the threads that are in _scheduler_loop
Alive(threads) == {t \in ThreadIds : threads[t].pc \in {"waiting", "job"}}

\* what a call looks at before and after
SchedulerState(running, event, config, jobs, threads, runs) ==
    [running |-> running, stop_event |-> event, config |-> config, jobs |-> jobs,
     alive |-> Alive(threads), runs |-> runs]

NoSchedulerCall ==
    [op |-> "none", arg |-> "none", returned |-> FALSE,
     before |-> SchedulerState(FALSE, FALSE, NoSchedule, <<>>,
                               [t \in ThreadIds |-> NoThread], 0),
     after |-> SchedulerState(FALSE, FALSE, NoSchedule, <<>>,
                              [t \in ThreadIds |-> NoThread], 0)]

\* what a firing of a job did: the files its scans scanned and the threats they
\* found, and what it added to the scheduler's statistics
Firing(existing, outcome, scanned, found, added_files, added_threats, added_runs) ==
    [fired |-> TRUE, existing |-> existing, outcome |-> outcome, scanned |-> scanned,
     found |-> found, added_files |-> added_files, added_threats |-> added_threats,
     added_runs |-> added_runs]

NotFired ==
    [fired |-> FALSE, existing |-> FALSE, outcome |-> "none", scanned |-> 0,
     found |-> 0, added_files |-> 0, added_threats |-> 0, added_runs |-> 0]

\* ScanScheduler.__init__(scanner, config)
SchedulerInit(config) ==
    /\ sch_running = FALSE
    /\ sch_stop_event = FALSE
    /\ sch_config = config
    /\ sch_jobs = <<>>
    /\ sch_threads = [t \in ThreadIds |-> NoThread]
    /\ sch_thread = "none"
    /\ sch_runs = 0
    /\ sch_totals = [total_files_scanned |-> 0, threats_found |-> 0]
    /\ sch_fire = NotFired
    /\ sch_last = NoSchedulerCall

\* the record of a call, from the state before it and the state it leaves
SchedulerCall(op, arg, returned) ==
    [op |-> op, arg |-> arg, returned |-> returned,
     before |-> SchedulerState(sch_running, sch_stop_event, sch_config, sch_jobs,
                               sch_threads, sch_runs),
     after |-> SchedulerState(sch_running', sch_stop_event', sch_config', sch_jobs',
                              sch_threads', sch_runs')]

\* _configure_scheduled_jobs: one job for every enabled scan type, holding the
\* paths and the mode configured at that moment
ConfiguredJobs(config) ==
    (IF config["daily"].enabled
     THEN <<[type |-> "daily", paths |-> config["daily"].paths,
             quick |-> config["daily"].quick]>>
     ELSE <<>>)
    \o (IF config["weekly"].enabled
        THEN <<[type |-> "weekly", paths |-> config["weekly"].paths,
                quick |-> config["weekly"].quick]>>
        ELSE <<>>)

\* start(): if self.running, return False
StartRefused == sch_running

\* stop() going on although the scheduler is not running
StopRefusedNever == FALSE

\* stop(): if not self.running, return False
StopRefused == ~sch_running

\* start()
SchedulerStart ==
    /\ UNCHANGED <<sch_config, sch_runs, sch_totals, sch_fire, scanVars>>
    /\ IF StartRefused
       THEN /\ UNCHANGED <<sch_running, sch_stop_event, sch_jobs, sch_threads, sch_thread>>
            /\ sch_last' = SchedulerCall("start", "none", FALSE)
       ELSE /\ \E t \in ThreadIds : sch_threads[t].pc = "none"
            /\ LET t == CHOOSE t \in ThreadIds : sch_threads[t].pc = "none"
               IN  /\ sch_running' = TRUE
                   /\ sch_stop_event' = FALSE
                   /\ sch_jobs' = sch_jobs \o ConfiguredJobs(sch_config)
                   /\ sch_threads' = [sch_threads EXCEPT ![t] = Waiting]
                   /\ sch_thread' = t
            /\ sch_last' = SchedulerCall("start", "none", TRUE)

\* stop(); joined tells whether the loop thread ended within the join timeout
SchedulerStop(joined) ==
    /\ UNCHANGED <<sch_config, sch_runs, sch_totals, sch_fire, sch_thread, scanVars>>
    /\ IF StopRefused
       THEN /\ ~joined
            /\ UNCHANGED <<sch_running, sch_stop_event, sch_jobs, sch_threads>>
            /\ sch_last' = SchedulerCall("stop", "none", FALSE)
       ELSE /\ joined => (sch_thread # "none" /\ sch_threads[sch_thread].pc = "waiting")
            /\ sch_running' = FALSE
            /\ sch_stop_event' = TRUE
            /\ sch_jobs' = <<>>
            /\ sch_threads' = IF joined
                              THEN [sch_threads EXCEPT ![sch_thread] = Done]
                              ELSE sch_threads
            /\ sch_last' = SchedulerCall("stop", "none", TRUE)

\* _run_scheduled_scan(paths, mode, type) with one configured path at most
RunScheduledScan(paths, quick) ==
    IF paths = <<>>
    THEN UNCHANGED <<sch_runs, sch_totals, sch_fire, scanVars>>
    ELSE IF ~PathExists(fs, paths[1])
    THEN /\ sch_runs < MaxScheduledScans
         /\ sch_runs' = sch_runs + 1
         /\ sch_fire' = Firing(FALSE, "ok", 0, 0, 0, 0, 1)
         /\ UNCHANGED <<sch_totals, scanVars>>
    ELSE /\ sch_runs < MaxScheduledScans
         /\ Scan(paths[1], quick)
         /\ LET ok == last'.outcome = "ok"
                total_files == IF ok THEN last'.returned.files_scanned ELSE 0
                total_threats == IF ok THEN last'.returned.threats_found ELSE 0
            IN /\ sch_runs' = IF ok THEN sch_runs + 1 ELSE sch_runs
               /\ sch_totals' =
                    [total_files_scanned |-> sch_totals.total_files_scanned + total_files,
                     threats_found |-> sch_totals.threats_found + total_threats]
               /\ sch_fire' = Firing(TRUE, last'.outcome,
                                     scan_stats'.files_scanned - scan_stats.files_scanned,
                                     scan_stats'.threats_found - scan_stats.threats_found,
                                     total_files, total_threats, sch_runs' - sch_runs)

\* _run_daily_scan / _run_weekly_scan: if not self.running, return
RunTypedScan(paths, quick) ==
    IF ~sch_running
    THEN UNCHANGED <<sch_runs, sch_totals, sch_fire, scanVars>>
    ELSE RunScheduledScan(paths, quick)

\* the scan types run_scan_now is called with
ScanTypeArgs == ScanTypes \cup {"monthly"}

\* run_scan_now(type)
RunScanNow(type) ==
    /\ UNCHANGED <<sch_running, sch_stop_event, sch_config, sch_jobs, sch_threads,
                   sch_thread>>
    /\ IF type \notin ScanTypes
       THEN /\ UNCHANGED <<sch_runs, sch_totals, sch_fire, scanVars>>
            /\ sch_last' = SchedulerCall("run_scan_now", type, FALSE)
       ELSE /\ RunTypedScan(sch_config[type].paths, sch_config[type].quick)
            /\ sch_last' = SchedulerCall("run_scan_now", type, TRUE)

\* _scheduler_loop: a thread evaluates the loop condition and run_pending finds
\* job number j due; the job starts unless the scheduler is not running
LoopWake(t, j) ==
    /\ sch_threads[t].pc = "waiting"
    /\ IF ~(sch_running /\ ~sch_stop_event)
       THEN sch_threads' = [sch_threads EXCEPT ![t] = Done]
       ELSE /\ j \in DOMAIN sch_jobs
            /\ sch_threads' = [sch_threads EXCEPT ![t] =
                                  [pc |-> "job", job |-> sch_jobs[j].type,
                                   paths |-> sch_jobs[j].paths,
                                   quick |-> sch_jobs[j].quick]]
    /\ UNCHANGED <<sch_running, sch_stop_event, sch_config, sch_jobs, sch_thread,
                   sch_runs, sch_totals, sch_fire, sch_last, scanVars>>

\* the job of a thread runs its scan and returns; the thread sleeps
LoopJobEnd(t) ==
    /\ sch_threads[t].pc = "job"
    /\ RunScheduledScan(sch_threads[t].paths, sch_threads[t].quick)
    /\ sch_threads' = [sch_threads EXCEPT ![t] = Waiting]
    /\ UNCHANGED <<sch_running, sch_stop_event, sch_config, sch_jobs, sch_thread,
                   sch_last>>

----------------------------------------------------------------------------
(* WindowsFileMonitor: the watchdog event handler *)

\* events are not dispatched beyond this many
MaxEvents == 3

\* the callbacks of the monitor
Callbacks == {"created", "modified", "deleted"}

\* the callbacks the service's monitor is given
ServiceCallbacks == {"created", "modified"}

\* the handler methods watchdog dispatches to
EventKinds == {"created", "modified", "deleted", "moved"}

NoMonitorEvent ==
    [kind |-> "none", is_directory |-> FALSE, raising |-> {}, invoked |-> <<>>,
     errors_before |-> 0, errors_after |-> 0]

\* WindowsFileMonitor.__init__
MonitorInit(callbacks) ==
    /\ mon_callbacks = callbacks
    /\ mon_stats = [events_processed |-> 0, files_created |-> 0, files_modified |-> 0,
                    files_deleted |-> 0, errors |-> 0]
    /\ mon_events = 0
    /\ mon_last = NoMonitorEvent

\* the callbacks a handler method calls, in order: its own, or for a move the
\* deleted callback and then the created callback
CallbackOrder(kind) == IF kind = "moved" THEN <<"deleted", "created">> ELSE <<kind>>

\* those of them that are set, for an event that is not about a directory
Invoked(kind, is_directory) ==
    IF is_directory THEN <<>>
    ELSE SelectSeq(CallbackOrder(kind), LAMBDA c : c \in mon_callbacks)

\* the number of callbacks among `invoked` that raise
Raised(invoked, raising) == Len(SelectSeq(invoked, LAMBDA c : c \in raising))

\* what the except clauses of a handler method add to stats['errors']
CountedErrors(kind, invoked, raising) ==
    IF kind = "moved" THEN 0 ELSE Raised(invoked, raising)

\* what a handler method adds to events_processed and to its files_ counter
Counted(kind, is_directory) == IF is_directory \/ kind = "moved" THEN 0 ELSE 1

\* Handler.on_created / on_modified / on_deleted / on_moved for one event;
\* `raising` are the callbacks that raise when called with this event
OnEvent(kind, is_directory, raising) ==
    LET invoked == Invoked(kind, is_directory)
        n == Counted(kind, is_directory)
    IN /\ mon_events < MaxEvents
       /\ mon_events' = mon_events + 1
       /\ mon_stats' =
            [events_processed |-> mon_stats.events_processed + n,
             files_created |-> mon_stats.files_created + (IF kind = "created" THEN n ELSE 0),
             files_modified |-> mon_stats.files_modified + (IF kind = "modified" THEN n ELSE 0),
             files_deleted |-> mon_stats.files_deleted + (IF kind = "deleted" THEN n ELSE 0),
             errors |-> mon_stats.errors + CountedErrors(kind, invoked, raising)]
       /\ mon_last' = [kind |-> kind, is_directory |-> is_directory, raising |-> raising,
                       invoked |-> invoked, errors_before |-> mon_stats.errors,
                       errors_after |-> mon_stats'.errors]
       /\ UNCHANGED mon_callbacks

----------------------------------------------------------------------------
(* FileTraversal.traverse with max_depth, on a tree of nested directories *)

\* the deepest directory of the tree is this many levels below the root
MaxTreeDepth == 3

\* the path parts of the root handed to traverse()
WalkRoot == <<"root">>

\* the directory `k` levels below the root: root/d/d/...
RECURSIVE DirAt(_)
DirAt(k) == IF k = 0 THEN WalkRoot ELSE Append(DirAt(k - 1), "d")

\* the file a directory holds
FileIn(dir) == Append(dir, "f")

\* max_depth: None, or a number
DepthNone == [is_none |-> TRUE, value |-> 0]
Depth(d) == [is_none |-> FALSE, value |-> d]
MaxDepths == {DepthNone} \cup {Depth(d) : d \in 1..(MaxTreeDepth + 1)}

\* os.scandir(dir): the file of the directory, if it has one, and its subdirectory
FileEntries(levels, dir) ==
    IF (Len(dir) - Len(WalkRoot)) \in levels THEN {FileIn(dir)} ELSE {}

DirEntries(dir) ==
    IF Len(dir) - Len(WalkRoot) < MaxTreeDepth THEN {Append(dir, "d")} ELSE {}

\* the depth check of line 192: root_path is the directory this call lists
WithinDepth(max_depth, root_path, entry_path) ==
    max_depth.is_none \/ Len(entry_path) < Len(root_path) + max_depth.value

\* traverse(root_path): the files it yields
RECURSIVE Traverse(_, _, _)
Traverse(levels, max_depth, root_path) ==
    FileEntries(levels, root_path) \cup
    UNION { IF WithinDepth(max_depth, root_path, entry_path)
            THEN Traverse(levels, max_depth, entry_path)
            ELSE {} : entry_path \in DirEntries(root_path) }

NotTraversed == [done |-> FALSE, files |-> {}]

\* FileTraversal.__init__ over a tree
WalkInit(levels, max_depth) ==
    /\ walk_levels = levels
    /\ walk_max_depth = max_depth
    /\ walk_yielded = NotTraversed

\* list(traverse(root))
TraverseRoot ==
    /\ ~walk_yielded.done
    /\ walk_yielded' = [done |-> TRUE,
                        files |-> Traverse(walk_levels, walk_max_depth, WalkRoot)]
    /\ UNCHANGED <<walk_levels, walk_max_depth>>

----------------------------------------------------------------------------
(* ThreadManager.__init__: the worker count *)

\* MAX_THREADS is at most this
ThreadLimit == 4

\* the thread settings of HEXAVGConfig: 1 <= MIN <= DEFAULT <= MAX
ThreadConfigs ==
    { c \in [MIN_THREADS : 1..ThreadLimit, MAX_THREADS : 1..ThreadLimit,
             DEFAULT_THREADS : 1..ThreadLimit] :
        c.MIN_THREADS <= c.DEFAULT_THREADS /\ c.DEFAULT_THREADS <= c.MAX_THREADS }

\* the max_workers argument: None, or a number
NoWorkers == [is_none |-> TRUE, value |-> 0]
Workers(T) == [is_none |-> FALSE, value |-> T]
Requests == {NoWorkers} \cup {Workers(T) : T \in (-1)..(ThreadLimit + 1)}

Min(a, b) == IF a <= b THEN a ELSE b
Max(a, b) == IF a >= b THEN a ELSE b

\* max(MIN_THREADS, min(n, MAX_THREADS))
Clamp(config, n) == Max(config.MIN_THREADS, Min(n, config.MAX_THREADS))

\* `max_workers or DEFAULT_THREADS`: None and 0 are false
OrDefault(config, T) ==
    IF T.is_none \/ T.value = 0 THEN config.DEFAULT_THREADS ELSE T.value

\* ThreadManager.max_workers after __init__
MaxWorkers(config, T) == Clamp(config, OrDefault(config, T))

NoPool == [made |-> FALSE, requested |-> NoWorkers, max_workers |-> 0]

PoolInit(config) ==
    /\ thread_config = config
    /\ pool_last = NoPool

\* ThreadManager(max_workers=T)
NewThreadManager(T) ==
    /\ pool_last' = [made |-> TRUE, requested |-> T,
                     max_workers |-> MaxWorkers(thread_config, T)]
    /\ UNCHANGED thread_config

----------------------------------------------------------------------------
(* SignatureDetector: the signature table, export and import *)

\* add_signature is not called on a table of this many rows
MaxSignatures == 3

\* the names signatures are added under
SignatureNames == {"Trojan.A", "Worm.B"}

\* a row of the table, of the columns that differ between the rows here
Row(name, sha1) == [name |-> name, sha1 |-> sha1]

\* the signatures of eicar.json
EicarRows(exists) == IF exists THEN <<Row("EICAR-Test-File", "sha1")>> ELSE <<>>

\* the limit argument of list_signatures: None, or a number
NoLimit == [is_none |-> TRUE, value |-> 0]
Limit(n) == [is_none |-> FALSE, value |-> n]

\* the rows in the order of ORDER BY created_at DESC
RECURSIVE Newest(_)
Newest(rows) ==
    IF rows = <<>> THEN <<>> ELSE <<rows[Len(rows)]>> \o Newest(SubSeq(rows, 1, Len(rows) - 1))

\* a listed signature: the selected columns leave sha1 out
Listed(row) == [name |-> row.name]

\* list_signatures(limit) when LIMIT NULL selected every row
ListSignaturesUnlimited(rows, limit) ==
    LET all == [i \in 1..Len(rows) |-> Listed(Newest(rows)[i])]
    IN IF limit.is_none \/ limit.value >= Len(all) THEN all
       ELSE SubSeq(all, 1, limit.value)

\* list_signatures(limit): sqlite3 rejects LIMIT NULL with a datatype mismatch,
\* the except clause prints and returns []
ListSignatures(rows, limit) ==
    IF limit.is_none THEN <<>> ELSE ListSignaturesUnlimited(rows, limit)

\* the row add_signature inserts for an entry of a document: sig.get('sha1')
Imported(sig) == Row(sig.name, "NULL")

NoDocument == [exists |-> FALSE, signatures |-> <<>>, count |-> 0]

NoRoundTrip == [done |-> FALSE, exported_from |-> 0, imported_into |-> 0]

NotRebuilt == [again |-> FALSE, before |-> 0, after |-> 0]

\* get_signature_count(): SELECT COUNT(*) FROM signatures
GetSignatureCount(store) == Len(store)

\* SignatureDetector.__init__: _initialize_database on a new database file and
\* _load_eicar_signature
SignatureInit(eicar) ==
    /\ sig_eicar = eicar
    /\ sig_store = EicarRows(eicar)
    /\ sig_doc = NoDocument
    /\ sig_round = NoRoundTrip
    /\ sig_built = NotRebuilt

\* SignatureDetector() again over the database file of the first one:
\* _initialize_database keeps the table (CREATE TABLE IF NOT EXISTS) and
\* _load_eicar_signature inserts the rows of eicar.json once more
ConstructAgain ==
    /\ Len(sig_store) + Len(EicarRows(sig_eicar)) <= MaxSignatures
    /\ sig_store' = sig_store \o EicarRows(sig_eicar)
    /\ sig_built' = [again |-> TRUE, before |-> GetSignatureCount(sig_store),
                     after |-> GetSignatureCount(sig_store')]
    /\ UNCHANGED <<sig_eicar, sig_doc, sig_round>>

\* add_signature(name, sha1=...)
AddSignature(name) ==
    /\ Len(sig_store) < MaxSignatures
    /\ sig_store' = Append(sig_store, Row(name, "sha1"))
    /\ UNCHANGED <<sig_eicar, sig_doc, sig_round, sig_built>>

\* export_signatures(output_file)
ExportSignatures ==
    LET signatures == ListSignatures(sig_store, NoLimit)
    IN /\ sig_doc' = [exists |-> TRUE, signatures |-> signatures,
                      count |-> Len(signatures)]
       /\ sig_round' = [done |-> FALSE, exported_from |-> Len(sig_store),
                        imported_into |-> 0]
       /\ UNCHANGED <<sig_eicar, sig_store, sig_built>>

\* the table of a new SignatureDetector over a new database file after
\* import_signatures(input_file)
ImportedStore(eicar, doc) ==
    EicarRows(eicar) \o [i \in 1..Len(doc.signatures) |-> Imported(doc.signatures[i])]

\* SignatureDetector() over a new database file, import_signatures(input_file)
\* and get_signature_count()
ImportIntoFreshStore ==
    /\ sig_doc.exists
    /\ ~sig_round.done
    /\ sig_round' = [sig_round EXCEPT !.done = TRUE,
                        !.imported_into = Len(ImportedStore(sig_eicar, sig_doc))]
    /\ UNCHANGED <<sig_eicar, sig_store, sig_doc, sig_built>>

----------------------------------------------------------------------------
(* AdvancedHeuristicEngine.analyze_file *)

\* a file has at most this many distinct suspicious strings
MaxMatches == 11

\* Shannon entropy of the data in tenths of a bit, around the thresholds
Entropies == {50, 55, 60, 65, 70, 75, 80}

\* the type file_signatures finds at the start of the data, "none" for no match
ActualTypes == {"exe", "elf", "zip", "png", "none"}

\* file_path.suffix.lower()
Extensions == {".exe", ".jpg", ".txt"}

benign_extensions == {".jpg", ".txt"}

executable_extensions == {".exe"}

HeuristicFiles ==
    [entropy : Entropies, small : BOOLEAN, actual_type : ActualTypes,
     extension : Extensions, matches : 0..MaxMatches, packer : BOOLEAN]

\* _analyze_entropy(data)['score']; `small` is len(data) < 256
EntropyScore(file) ==
    IF file.small THEN 0
    ELSE IF file.entropy >= 75 THEN 30
    ELSE IF file.entropy >= 70 THEN 25
    ELSE IF file.entropy >= 65 THEN 15
    ELSE IF file.entropy >= 55 THEN 5
    ELSE 0

\* _check_extension_mismatch(file_path, data)['score']
MismatchScore(file) ==
    IF file.actual_type = "none" THEN 0
    ELSE IF file.actual_type \in {"exe", "elf"} /\ file.extension \in benign_extensions
    THEN 25
    ELSE IF file.actual_type = "zip" /\ file.extension \in {".jpg"} THEN 20
    ELSE IF file.actual_type = "txt" /\ file.extension \in executable_extensions THEN 10
    ELSE 0

\* the score _detect_suspicious_strings computes from len(set(matches))
StringsScore(match_count) ==
    IF match_count >= 10 THEN 25
    ELSE IF match_count >= 5 THEN 20
    ELSE IF match_count >= 3 THEN 15
    ELSE IF match_count >= 1 THEN 10
    ELSE 5

\* _detect_suspicious_strings(data): with no match it returns score 0; with a
\* match the return statement evaluates set(matches)[:5], a TypeError
StringsRaises(file) == file.matches > 0

StringsResult(file) == IF file.matches = 0 THEN 0 ELSE StringsScore(file.matches)

\* _detect_packer(data)['score']
PackerScore(file) ==
    IF file.packer THEN 20
    ELSE IF EntropyScore(file) >= 20 THEN 15
    ELSE 0

\* the signals analyze_file appends, in order, each with its score
Signals(file) ==
    LET all == << [name |-> "entropy", score |-> EntropyScore(file)],
                  [name |-> "extension_mismatch", score |-> MismatchScore(file)],
                  [name |-> "suspicious_strings", score |-> StringsResult(file)],
                  [name |-> "packer_detected", score |-> PackerScore(file)] >>
    IN SelectSeq(all, LAMBDA signal : signal.score > 0)

RECURSIVE SumScores(_)
SumScores(signals) ==
    IF signals = <<>> THEN 0 ELSE Head(signals).score + SumScores(Tail(signals))

NotAnalyzed == [outcome |-> "none", risk_score |-> 0, signals |-> <<>>]

\* analyze_file(file_path) on an existing, readable file
AnalyzeFileResult(file) ==
    IF StringsRaises(file)
    THEN [outcome |-> "TypeError", risk_score |-> 0, signals |-> <<>>]
    ELSE [outcome |-> "returned", risk_score |-> Min(SumScores(Signals(file)), 100),
          signals |-> Signals(file)]

HeuristicInit(file) ==
    /\ heur_file = file
    /\ heur_result = NotAnalyzed

AnalyzeFile ==
    /\ heur_result.outcome = "none"
    /\ heur_result' = AnalyzeFileResult(heur_file)
    /\ UNCHANGED heur_file

----------------------------------------------------------------------------
(* The jobs a service start registers with the schedule module *)

\* dict.get(key, default)
Get(dict, key, default) == IF key \in DOMAIN dict THEN dict[key] ELSE default

\* {}
EmptyDict == [key \in {} |-> FALSE]

\* the values of scheduled_scans.daily and scheduled_scans.weekly
DailyConfigs ==
    [enabled : BOOLEAN, time : {"02:00", "04:30"}, mode : {"quick", "full"},
     paths : {<<ScanDir>>}]

WeeklyConfigs ==
    [enabled : BOOLEAN, day : {"Sunday", "Friday", "Funday"}, time : {"03:00"},
     mode : {"quick", "full"}, paths : {<<ScanDir>>}]

\* the service configurations: the keys of _default_config that matter here
ScheduledServiceConfigs ==
    { [watch_paths |-> <<ScanDir>>,
       scheduled_scans |-> [daily |-> d, weekly |-> w]] :
        d \in DailyConfigs, w \in WeeklyConfigs }

\* getattr(schedule.every(), day.lower(), None) is a job builder
IsWeekday(day) ==
    day \in {"Monday", "Tuesday", "Wednesday", "Thursday", "Friday", "Saturday", "Sunday"}

\* _initialize_components: the config argument the service gives its scheduler
SchedulerConfigOfService(service_config) ==
    Get(service_config, "scheduled_scans", EmptyDict)

\* _configure_scheduled_jobs of a scheduler whose self.config is `config`
RegisteredJobs(config) ==
    LET scheduled_scans == Get(config, "scheduled_scans", EmptyDict)
        daily_config == Get(scheduled_scans, "daily", EmptyDict)
        weekly_config == Get(scheduled_scans, "weekly", EmptyDict)
    IN (IF Get(daily_config, "enabled", FALSE)
        THEN <<[type |-> "daily", day |-> "every",
                time |-> Get(daily_config, "time", "02:00"),
                paths |-> Get(daily_config, "paths", <<>>),
                mode |-> Get(daily_config, "mode", "quick")]>>
        ELSE <<>>)
       \o (IF Get(weekly_config, "enabled", FALSE)
              /\ IsWeekday(Get(weekly_config, "day", "Sunday"))
           THEN <<[type |-> "weekly", day |-> Get(weekly_config, "day", "Sunday"),
                   time |-> Get(weekly_config, "time", "03:00"),
                   paths |-> Get(weekly_config, "paths", <<>>),
                   mode |-> Get(weekly_config, "mode", "full")]>>
           ELSE <<>>)

\* the configuration outside the specification of the job registration
IdleServiceConfig ==
    [watch_paths |-> <<ScanDir>>,
     scheduled_scans |->
        [daily |-> [enabled |-> FALSE, time |-> "02:00", mode |-> "quick",
                    paths |-> <<ScanDir>>],
         weekly |-> [enabled |-> FALSE, day |-> "Sunday", time |-> "03:00",
                     mode |-> "full", paths |-> <<ScanDir>>]]]

\* HEXAVGWindowsService.__init__ with a configuration file holding `config`
JobsInit(config) ==
    /\ job_config = config
    /\ job_started = FALSE
    /\ job_registered = <<>>

\* a successful start(): _initialize_components and _start_scheduler
StartRegistersJobs ==
    /\ ~job_started
    /\ job_started' = TRUE
    /\ job_registered' = RegisteredJobs(SchedulerConfigOfService(job_config))
    /\ UNCHANGED job_config

\* stop(): schedule.clear()
StopClearsJobs ==
    /\ job_started
    /\ job_started' = FALSE
    /\ job_registered' = <<>>
    /\ UNCHANGED job_config

----------------------------------------------------------------------------
(* The polling file monitor: monitoring/windows_monitor.py, SimpleFileMonitor *)

\* the files below the watched directory, in the order rglob yields them
PollPaths == {"p1", "p2"}

PollOrder == <<"p1", "p2">>

\* what stat() reports of a file: its size and its modification time
NoStat == [exists |-> FALSE, size |-> 0, modified |-> 0]

FileStats == {[exists |-> TRUE, size |-> 1, modified |-> 1],
              [exists |-> TRUE, size |-> 2, modified |-> 1],
              [exists |-> TRUE, size |-> 1, modified |-> 2]}

Disks == [PollPaths -> FileStats \cup {NoStat}]

IdleDisk == [p \in PollPaths |-> NoStat]

\* _scan_directory(): one entry per file that exists
ScanDirectory(disk) == [p \in {q \in PollPaths : disk[q].exists} |-> disk[p]]

\* the event _compare_states() sees for a path of the new snapshot
EventOf(old_states, new_states, path) ==
    IF path \notin DOMAIN new_states THEN "none"
    ELSE IF path \notin DOMAIN old_states THEN "created"
    ELSE IF \/ new_states[path].size # old_states[path].size
            \/ new_states[path].modified # old_states[path].modified
         THEN "modified"
         ELSE "none"

\* the callbacks the first loop of _compare_states() means to make, in order
PlannedCalls(old_states, new_states) ==
    LET F[i \in 0..Len(PollOrder)] ==
            IF i = 0 THEN <<>>
            ELSE IF EventOf(old_states, new_states, PollOrder[i]) = "none" THEN F[i - 1]
            ELSE Append(F[i - 1], [kind |-> EventOf(old_states, new_states, PollOrder[i]),
                                    path |-> PollOrder[i]])
    IN  F[Len(PollOrder)]

\* the position of the first callback that raises, 0 when none does
FirstRaise(calls, raising) ==
    LET hit == {i \in 1..Len(calls) : calls[i].path \in raising}
    IN  IF hit = {} THEN 0 ELSE CHOOSE i \in hit : \A j \in hit : i <= j

\* the callbacks made: a raising callback ends the comparison
MadeCalls(calls, raising) ==
    IF FirstRaise(calls, raising) = 0 THEN calls
    ELSE SubSeq(calls, 1, FirstRaise(calls, raising))

\* the paths of the old snapshot that are gone
DeletedPaths(old_states, new_states) == DOMAIN old_states \ DOMAIN new_states

\* _compare_states() raises when a callback raises, and on the first deleted
\* path: it reads self.on_file_deleted, which __init__ never sets
CompareRaises(old_states, new_states, raising) ==
    \/ FirstRaise(PlannedCalls(old_states, new_states), raising) # 0
    \/ DeletedPaths(old_states, new_states) # {}

NotPolled == [polled |-> FALSE, old |-> <<>>, new |-> <<>>, calls |-> <<>>, raised |-> FALSE]

\* __init__ and start(): the first snapshot is taken before the loop starts
PollInit(disk) ==
    /\ poll_disk = disk
    /\ file_states = ScanDirectory(disk)
    /\ poll_last = NotPolled

\* a file is created, modified (size or modification time) or deleted
ChangeFile(path, stat) ==
    /\ stat # poll_disk[path]
    /\ poll_disk' = [poll_disk EXCEPT ![path] = stat]
    /\ UNCHANGED <<file_states, poll_last>>

\* one pass of _monitor_loop(); the callbacks of the paths in `raising` raise
Poll(raising) ==
    LET new_states == ScanDirectory(poll_disk)
        raised == CompareRaises(file_states, new_states, raising)
    IN  /\ file_states' = IF raised THEN file_states ELSE new_states
        /\ poll_last' = [polled |-> TRUE, old |-> file_states, new |-> new_states,
                         calls |-> MadeCalls(PlannedCalls(file_states, new_states), raising),
                         raised |-> raised]
        /\ UNCHANGED poll_disk

----------------------------------------------------------------------------
(* ThreadManager called directly: core/multithreading.py, submit_task,
   map_tasks, batch_process, scan_files with any task function and callback *)

\* the longest item list handed to one call, and the most tasks one manager gets
MaxItems == 2

MaxSubmitted == 4

\* the item lists: items 1..n
ItemCounts == 0..MaxItems

BatchSizes == {1, 2}

NoTmCall == [op |-> "none", items |-> 0, results |-> <<>>]

RECURSIVE TaskResults(_, _, _, _)
\* the result list of scan_files over items i..n: a task of `failing` raises
\* (one synthetic result); a task that succeeds appends its result, and when
\* the progress callback then raises (`cbFail`) the same except branch appends
\* a synthetic result as well
TaskResults(i, n, failing, cbFail) ==
    IF i > n THEN <<>>
    ELSE (IF i \in failing
          THEN <<[item |-> i, status |-> "error"]>>
          ELSE <<[item |-> i, status |-> "ok"]>>
               \o (IF i \in cbFail THEN <<[item |-> i, status |-> "error"]>> ELSE <<>>))
         \o TaskResults(i + 1, n, failing, cbFail)

\* how many except branches scan_files takes
ExceptCount(n, failing, cbFail) ==
    Cardinality((1..n) \cap failing) + Cardinality(((1..n) \ failing) \cap cbFail)

\* stats after scan_files: total_tasks is assigned, the other two are added to
TmScanFilesStats(st, n, failing, cbFail) ==
    [total_tasks |-> n,
     completed_tasks |-> st.completed_tasks + Cardinality((1..n) \ failing),
     failed_tasks |-> st.failed_tasks + ExceptCount(n, failing, cbFail)]

\* stats after map_tasks: total_tasks is assigned, the other two are added to
MapTasksStats(st, n, failing) ==
    [total_tasks |-> n,
     completed_tasks |-> st.completed_tasks + Cardinality((1..n) \ failing),
     failed_tasks |-> st.failed_tasks + Cardinality((1..n) \cap failing)]

\* the size of the last batch of batch_process over n items (n > 0)
LastBatch(n, batch_size) ==
    IF n % batch_size = 0 THEN batch_size ELSE n % batch_size

\* stats after batch_process: one map_tasks per batch
BatchProcessStats(st, n, batch_size, failing) ==
    IF n = 0 THEN st
    ELSE [MapTasksStats(st, n, failing) EXCEPT !.total_tasks = LastBatch(n, batch_size)]

\* ThreadManager.__init__
ThreadManagerInit ==
    /\ tmgr_stats = EmptyTmStats
    /\ tmgr_submitted = 0
    /\ tmgr_last = NoTmCall

\* submit_task(func): counts the task and hands back its future; nothing
\* counts its completion
SubmitTask ==
    /\ tmgr_submitted + 1 <= MaxSubmitted
    /\ tmgr_stats' = [tmgr_stats EXCEPT !.total_tasks = @ + 1]
    /\ tmgr_submitted' = tmgr_submitted + 1
    /\ tmgr_last' = [op |-> "submit_task", items |-> 1, results |-> <<>>]

\* map_tasks(func, items): the tasks of `failing` raise
MapTasks(n, failing) ==
    /\ tmgr_submitted + n <= MaxSubmitted
    /\ tmgr_stats' = MapTasksStats(tmgr_stats, n, failing)
    /\ tmgr_submitted' = tmgr_submitted + n
    /\ tmgr_last' = [op |-> "map_tasks", items |-> n,
                     results |-> TaskResults(1, n, failing, {})]

\* batch_process(func, items, batch_size)
BatchProcess(n, batch_size, failing) ==
    /\ tmgr_submitted + n <= MaxSubmitted
    /\ tmgr_stats' = BatchProcessStats(tmgr_stats, n, batch_size, failing)
    /\ tmgr_submitted' = tmgr_submitted + n
    /\ tmgr_last' = [op |-> "batch_process", items |-> n,
                     results |-> TaskResults(1, n, failing, {})]

\* scan_files(file_paths, scan_func, progress_callback): the tasks of `failing`
\* raise, the progress callback raises on the items of cbFail
TmScanFiles(n, failing, cbFail) ==
    /\ tmgr_submitted + n <= MaxSubmitted
    /\ tmgr_stats' = TmScanFilesStats(tmgr_stats, n, failing, cbFail)
    /\ tmgr_submitted' = tmgr_submitted + n
    /\ tmgr_last' = [op |-> "scan_files", items |-> n,
                     results |-> TaskResults(1, n, failing, cbFail)]

----------------------------------------------------------------------------
(* Initial values of the subsystems outside their own specifications *)

\* the file of the heuristic engine outside its specification
IdleFile ==
    [entropy |-> 50, small |-> TRUE, actual_type |-> "none", extension |-> ".txt",
     matches |-> 0, packer |-> FALSE]

\* the thread settings outside the thread manager's specification
IdleThreadConfig == [MIN_THREADS |-> 1, MAX_THREADS |-> ThreadLimit, DEFAULT_THREADS |-> 1]

\* the subsystems modelled after the scheduler, all but the one named `own`,
\* at their initial values
AuxIdle(own) ==
    /\ IF own = "monitor" THEN TRUE ELSE MonitorInit(ServiceCallbacks)
    /\ IF own = "traverse" THEN TRUE ELSE WalkInit({}, DepthNone)
    /\ IF own = "pool" THEN TRUE ELSE PoolInit(IdleThreadConfig)
    /\ IF own = "signature" THEN TRUE ELSE SignatureInit(FALSE)
    /\ IF own = "heuristic" THEN TRUE ELSE HeuristicInit(IdleFile)
    /\ IF own = "jobs" THEN TRUE ELSE JobsInit(IdleServiceConfig)
    /\ IF own = "poll" THEN TRUE ELSE PollInit(IdleDisk)
    /\ IF own = "threads" THEN TRUE ELSE ThreadManagerInit

\* a step of the subsystem named `own` leaves the others as they are
AuxFrame(own) ==
    /\ IF own = "monitor" THEN TRUE ELSE UNCHANGED monVars
    /\ IF own = "traverse" THEN TRUE ELSE UNCHANGED walkVars
    /\ IF own = "pool" THEN TRUE ELSE UNCHANGED poolVars
    /\ IF own = "signature" THEN TRUE ELSE UNCHANGED sigVars
    /\ IF own = "heuristic" THEN TRUE ELSE UNCHANGED heurVars
    /\ IF own = "jobs" THEN TRUE ELSE UNCHANGED jobVars
    /\ IF own = "poll" THEN TRUE ELSE UNCHANGED pollVars
    /\ IF own = "threads" THEN TRUE ELSE UNCHANGED tmgrVars

AuxInit == AuxIdle("none")

\* the subsystems modelled after the update manager
ExtInit ==
    /\ SchedulerInit(NoSchedule)
    /\ AuxInit

\* the subsystems modelled before the scheduler, as the scheduler's
\* specification starts them
IdleInit ==
    /\ fs = [f \in Files |-> IF f = "a.exe" THEN "clean" ELSE Absent]
    /\ enable_heuristics = TRUE
    /\ enable_yara = FALSE
    /\ ScannerInit
    /\ ServiceInit
    /\ os_bound = TRUE
    /\ watchdog = TRUE
    /\ CloudInit(NoFile)
    /\ UpdateInit(FreshInstall)

\* the variables of the subsystems modelled before the monitor
coreVars == <<scanVars, svcVars, cloudVars, updVars, schVars>>

\* the steps of the update manager on its own
UpdateToolStep(force, answer, pkg, fail, done) ==
    UpdateTool(force, answer, pkg, fail, done) /\ UNCHANGED <<scanVars, svcVars, cloudVars, extVars>>
EnableAutoUpdateStep == EnableAutoUpdate /\ UNCHANGED <<scanVars, svcVars, cloudVars, extVars>>

\* the answers typed at the update prompt
UpdateAnswers == { <<"y", "e", "s">>, <<"Y">>, <<"n", "o">>, <<"y", "e">> }

\* the installations an update may start from
Installations ==
    {FreshInstall, [FreshInstall EXCEPT !["src/new.py"] = "v1"]}

InitUpdate ==
    /\ fs = [f \in Files |-> Absent]
    /\ enable_heuristics = TRUE
    /\ enable_yara = FALSE
    /\ ScannerInit
    /\ ServiceInit
    /\ os_bound = TRUE
    /\ watchdog = TRUE
    /\ CloudInit(NoFile)
    /\ \E i \in Installations : UpdateInit(i)
    /\ ExtInit

NextUpdate ==
    \/ \E force \in BOOLEAN, answer \in UpdateAnswers, pkg \in Packages,
          fail \in Failures, done \in SUBSET InstPaths :
            UpdateToolStep(force, answer, pkg, fail, done)
    \/ EnableAutoUpdateStep

SpecUpdate == InitUpdate /\ [][NextUpdate]_vars

\* the steps of the cloud client on its own
EnableStep(n, a) == Enable(n, a) /\ UNCHANGED <<scanVars, svcVars, updVars, extVars>>
DisableStep == Disable /\ UNCHANGED <<scanVars, svcVars, updVars, extVars>>
SetOfflineModeStep(b) == SetOfflineMode(b) /\ UNCHANGED <<scanVars, svcVars, updVars, extVars>>
ClearCacheStep == ClearCache /\ UNCHANGED <<scanVars, svcVars, updVars, extVars>>
QueryHashStep(f) == QueryHash(f) /\ UNCHANGED <<scanVars, svcVars, updVars, extVars>>

\* the cache files a new client may find: none, or one written by an earlier run
CacheFilesOnDisk ==
    {NoFile, CacheFile({<<StrKey(HASH_OTHER), <<"success", "unknown">>>>})}

InitCloud ==
    /\ fs = [f \in Files |-> Absent]
    /\ enable_heuristics = TRUE
    /\ enable_yara = FALSE
    /\ ScannerInit
    /\ ServiceInit
    /\ os_bound = TRUE
    /\ watchdog = TRUE
    /\ \E file \in CacheFilesOnDisk : CloudInit(file)
    /\ UpdateInit(FreshInstall)
    /\ ExtInit

NextCloud ==
    \/ \E n \in BOOLEAN, a \in Answers : EnableStep(n, a)
    \/ DisableStep
    \/ \E b \in BOOLEAN : SetOfflineModeStep(b)
    \/ ClearCacheStep
    \/ \E f \in CloudFiles : QueryHashStep(f)

SpecCloud == InitCloud /\ [][NextCloud]_vars

\* the steps of the job registration on its own
InitJobs ==
    /\ IdleInit
    /\ SchedulerInit(NoSchedule)
    /\ \E config \in ScheduledServiceConfigs : JobsInit(config)
    /\ AuxIdle("jobs")

StartRegistersJobsStep == StartRegistersJobs /\ UNCHANGED coreVars /\ AuxFrame("jobs")
StopClearsJobsStep == StopClearsJobs /\ UNCHANGED coreVars /\ AuxFrame("jobs")

NextJobs == StartRegistersJobsStep \/ StopClearsJobsStep

SpecJobs == InitJobs /\ [][NextJobs]_vars

\* the steps of the polling monitor on its own
InitPoll ==
    /\ IdleInit
    /\ SchedulerInit(NoSchedule)
    /\ \E disk \in Disks : PollInit(disk)
    /\ AuxIdle("poll")

ChangeFileStep ==
    /\ \E path \in PollPaths, stat \in FileStats \cup {NoStat} : ChangeFile(path, stat)
    /\ UNCHANGED coreVars /\ AuxFrame("poll")

PollStep ==
    /\ \E raising \in SUBSET PollPaths : Poll(raising)
    /\ UNCHANGED coreVars /\ AuxFrame("poll")

NextPoll == ChangeFileStep \/ PollStep

SpecPoll == InitPoll /\ [][NextPoll]_vars

\* the steps of a thread manager called directly
InitThreads ==
    /\ IdleInit
    /\ SchedulerInit(NoSchedule)
    /\ ThreadManagerInit
    /\ AuxIdle("threads")

SubmitTaskStep == SubmitTask /\ UNCHANGED coreVars /\ AuxFrame("threads")

MapTasksStep ==
    /\ \E n \in ItemCounts : \E failing \in SUBSET (1..n) : MapTasks(n, failing)
    /\ UNCHANGED coreVars /\ AuxFrame("threads")

BatchProcessStep ==
    /\ \E n \in ItemCounts, batch_size \in BatchSizes :
          \E failing \in SUBSET (1..n) : BatchProcess(n, batch_size, failing)
    /\ UNCHANGED coreVars /\ AuxFrame("threads")

TmScanFilesStep ==
    /\ \E n \in ItemCounts :
          \E failing \in SUBSET (1..n), cbFail \in SUBSET (1..n) :
             TmScanFiles(n, failing, cbFail)
    /\ UNCHANGED coreVars /\ AuxFrame("threads")

NextThreads == SubmitTaskStep \/ MapTasksStep \/ BatchProcessStep \/ TmScanFilesStep

SpecThreads == InitThreads /\ [][NextThreads]_vars

\* the steps of the heuristic engine on its own
InitHeuristic ==
    /\ IdleInit
    /\ SchedulerInit(NoSchedule)
    /\ \E file \in HeuristicFiles : HeuristicInit(file)
    /\ AuxIdle("heuristic")

AnalyzeFileStep == AnalyzeFile /\ UNCHANGED coreVars /\ AuxFrame("heuristic")

NextHeuristic == AnalyzeFileStep

SpecHeuristic == InitHeuristic /\ [][NextHeuristic]_vars

\* the steps of the signature store on its own
InitSignature ==
    /\ IdleInit
    /\ SchedulerInit(NoSchedule)
    /\ \E eicar \in BOOLEAN : SignatureInit(eicar)
    /\ AuxIdle("signature")

AddSignatureStep(name) == AddSignature(name) /\ UNCHANGED coreVars /\ AuxFrame("signature")
ExportSignaturesStep == ExportSignatures /\ UNCHANGED coreVars /\ AuxFrame("signature")
ImportIntoFreshStoreStep == ImportIntoFreshStore /\ UNCHANGED coreVars /\ AuxFrame("signature")
ConstructAgainStep == ConstructAgain /\ UNCHANGED coreVars /\ AuxFrame("signature")

NextSignature ==
    \/ \E name \in SignatureNames : AddSignatureStep(name)
    \/ ExportSignaturesStep
    \/ ImportIntoFreshStoreStep
    \/ ConstructAgainStep

SpecSignature == InitSignature /\ [][NextSignature]_vars

\* the steps of the thread manager's construction on its own
InitPool ==
    /\ IdleInit
    /\ SchedulerInit(NoSchedule)
    /\ \E config \in ThreadConfigs : PoolInit(config)
    /\ AuxIdle("pool")

NewThreadManagerStep(T) == NewThreadManager(T) /\ UNCHANGED coreVars /\ AuxFrame("pool")

NextPool == \E T \in Requests : NewThreadManagerStep(T)

SpecPool == InitPool /\ [][NextPool]_vars

\* the steps of a traversal on its own
InitTraverse ==
    /\ IdleInit
    /\ SchedulerInit(NoSchedule)
    /\ \E levels \in SUBSET (0..MaxTreeDepth), max_depth \in MaxDepths :
          WalkInit(levels, max_depth)
    /\ AuxIdle("traverse")

TraverseRootStep == TraverseRoot /\ UNCHANGED coreVars /\ AuxFrame("traverse")

NextTraverse == TraverseRootStep

SpecTraverse == InitTraverse /\ [][NextTraverse]_vars

\* the steps of the file monitor on its own
InitMonitor ==
    /\ IdleInit
    /\ SchedulerInit(NoSchedule)
    /\ \E callbacks \in SUBSET Callbacks : MonitorInit(callbacks)
    /\ AuxIdle("monitor")

OnEventStep(kind, is_directory, raising) ==
    OnEvent(kind, is_directory, raising) /\ UNCHANGED coreVars /\ AuxFrame("monitor")

NextMonitor ==
    \E kind \in EventKinds, is_directory \in BOOLEAN, raising \in SUBSET Callbacks :
        OnEventStep(kind, is_directory, raising)

SpecMonitor == InitMonitor /\ [][NextMonitor]_vars

\* the steps of the scheduler on its own
schFrame == <<svcVars, cloudVars, updVars, auxVars>>
SchedulerStartStep == SchedulerStart /\ UNCHANGED schFrame
SchedulerStopStep(joined) == SchedulerStop(joined) /\ UNCHANGED schFrame
RunScanNowStep(type) == RunScanNow(type) /\ UNCHANGED schFrame
LoopWakeStep(t, j) == LoopWake(t, j) /\ UNCHANGED schFrame
LoopJobEndStep(t) == LoopJobEnd(t) /\ UNCHANGED schFrame

InitScheduler ==
    /\ fs = [f \in Files |-> IF f = "a.exe" THEN "clean" ELSE Absent]
    /\ enable_heuristics = TRUE
    /\ enable_yara = FALSE
    /\ ScannerInit
    /\ ServiceInit
    /\ os_bound = TRUE
    /\ watchdog = TRUE
    /\ CloudInit(NoFile)
    /\ UpdateInit(FreshInstall)
    /\ \E config \in Schedules : SchedulerInit(config)
    /\ AuxInit

NextScheduler ==
    \/ SchedulerStartStep
    \/ \E joined \in BOOLEAN : SchedulerStopStep(joined)
    \/ \E type \in ScanTypeArgs : RunScanNowStep(type)
    \/ \E t \in ThreadIds, j \in 1..2 : LoopWakeStep(t, j)
    \/ \E t \in ThreadIds : LoopJobEndStep(t)

SpecScheduler == InitScheduler /\ [][NextScheduler]_vars

\* the steps of the scan orchestrator on its own
ScanStep(t, q) == Scan(t, q) /\ UNCHANGED <<svcVars, cloudVars, updVars, extVars>>
ResetStatisticsStep == ResetStatistics /\ UNCHANGED <<svcVars, cloudVars, updVars, extVars>>
AttachDetectorsStep(D) == AttachDetectors(D) /\ UNCHANGED <<svcVars, cloudVars, updVars, extVars>>

InitScan ==
    /\ fs \in [Files -> Kinds \cup {Absent}]
    /\ enable_heuristics = TRUE
    /\ enable_yara \in BOOLEAN
    /\ ScannerInit
    /\ ServiceInit
    /\ os_bound = TRUE
    /\ watchdog = TRUE
    /\ CloudInit(NoFile)
    /\ UpdateInit(FreshInstall)
    /\ ExtInit

NextScan ==
    \/ \E t \in Paths, q \in BOOLEAN : ScanStep(t, q)
    \/ ResetStatisticsStep
    \/ \E D \in DetectorSets : AttachDetectorsStep(D)

SpecScan == InitScan /\ [][NextScan]_vars

InitService ==
    /\ fs \in [Files -> Kinds \cup {Absent}]
    /\ enable_heuristics = TRUE
    /\ enable_yara = FALSE
    /\ ScannerInit
    /\ ServiceInit
    /\ os_bound \in BOOLEAN
    /\ watchdog \in BOOLEAN
    /\ CloudInit(NoFile)
    /\ UpdateInit(FreshInstall)
    /\ ExtInit

StartStep(exc) == Start(exc) /\ UNCHANGED <<cloudVars, updVars, extVars>>
StopStep == Stop /\ UNCHANGED <<cloudVars, updVars, extVars>>
OnFileCreatedStep(f) == OnFileCreated(f) /\ UNCHANGED <<cloudVars, updVars, extVars>>
ConfigureStep(P, written) == Configure(P, written) /\ UNCHANGED <<cloudVars, updVars, extVars>>
RunStep == Run /\ UNCHANGED <<cloudVars, updVars, extVars>>

NextService ==
    \/ \E exc \in {"none", "init", "scheduler"} : StartStep(exc)
    \/ StopStep
    \/ \E f \in Files : OnFileCreatedStep(f)
    \/ \E P \in WatchPathLists, written \in BOOLEAN : ConfigureStep(P, written)
    \/ RunStep

SpecService == InitService /\ [][NextService]_vars

----------------------------------------------------------------------------
(* Claims about the scan orchestrator (SpecScan) *)

\* the results of the last scan that carry a threat
ThreatResults(results) == SelectSeq(results, LAMBDA r : r.threats # <<>>)

IsSkippedOrError(r) == r.status \in {"skipped", "error"}
HasThreats(r) == r.threats # <<>>

\* C1: scanning the path of a file that holds the EICAR string, with a
\* signature detector attached, completes without error and returns
\* threats_found > 0 with a 'signature' threat entry for that file.
C1_EicarSelfTest ==
    (/\ last.target \in Files
     /\ fs[last.target] = "eicar"
     /\ "signature" \in last.det)
    => /\ last.outcome = "ok"
       /\ last.returned.threats_found > 0
       /\ \E i \in DOMAIN last.returned.threats :
             /\ last.returned.threats[i].file_path = last.target
             /\ "signature" \in Range(last.returned.threats[i].threats)

\* C2: the statistics a scan returns describe that invocation only: they equal
\* the counts over the per-file results of that scan.
C2_ScanRunIsPerInvocation ==
    last.outcome = "ok"
    => /\ last.returned.files_scanned = Len(last.results)
       /\ last.returned.files_skipped = CountIf(last.results, IsSkippedOrError)
       /\ last.returned.threats_found = CountIf(last.results, HasThreats)
       /\ last.returned.threats = ThreatResults(last.results)

\* C3: a scan of the directory completes whatever happens to single files: it
\* returns exactly one result per path that was listed, the result of a file
\* that disappeared before its task ran has status 'error' and a message, the
\* results of the other files do not, and every 'error' or 'skipped' result is counted in
\* files_skipped.
C3_PartialFailureIsolation ==
    (last.target = ScanDir)
    => /\ last.outcome = "ok"
       /\ \A i, j \in DOMAIN last.results :
             last.results[i].file_path = last.results[j].file_path => i = j
       /\ TraverseFiles(fs, SkipExtensions(last.quick))
             \subseteq {r.file_path : r \in Range(last.results)}
       /\ \A r \in Range(last.results) :
             /\ r.has_threats
             /\ (fs[r.file_path] = Absent) <=> (r.status = "error")
             /\ (r.status = "error") => (r.error # "")
             /\ Ext(r.file_path) \notin SkipExtensions(last.quick)
       /\ last.returned.files_scanned = last.before.files_scanned + Len(last.results)
       /\ last.returned.files_skipped =
             last.before.files_skipped + CountIf(last.results, IsSkippedOrError)

\* C3 witness: a directory scan in which one file failed and another did not
C3_Witness ==
    /\ last.target = ScanDir
    /\ last.outcome = "ok"
    /\ \E r1, r2 \in Range(last.results) :
          r1.status = "error" /\ r2.status \notin {"error", "skipped"}

----------------------------------------------------------------------------
(* Claims about the background service (SpecService) *)

\* C4: a file-created event on an existing executable file of scannable size,
\* handled while the service runs, increments files_scanned by one, and
\* increments threats_blocked and appends one alert exactly when the scan of
\* the file found a threat.
C4_FileCreatedScansFile ==
    (svc_last.path # "none" /\ svc_last.eligible)
    => /\ svc_last.after.files_scanned = svc_last.before.files_scanned + 1
       /\ svc_last.after.threats_blocked =
             svc_last.before.threats_blocked + (IF svc_last.found THEN 1 ELSE 0)
       /\ svc_last.alerts_after =
             svc_last.alerts_before + (IF svc_last.found THEN 1 ELSE 0)

----------------------------------------------------------------------------
(* Cloud client claims *)

\* the SHA-256 key of the file of the last query
LastKey == StrKey(Sha256(cl_last.file))

\* what the last call left of the client's state
CloudStateKept ==
    /\ cl_cache = cl_last.cache_before
    /\ cl_cache_file = cl_last.file_before
    /\ cl_offline = cl_last.offline_before

\* C5: a newly constructed cloud client is disabled, and query_hash on a
\* disabled client answers 'disabled' without hashing the file, reading the
\* cache or looking anything up, and leaves cache, cache file, offline flag
\* and enabled flag as they were.
C5_DisabledByDefault ==
    /\ cl_last.op = "none" => ~IsEnabled
    /\ (cl_last.op = "query_hash" /\ ~cl_last.enabled_before) =>
          /\ cl_last.resp = DisabledResponse
          /\ ~cl_last.hashed /\ ~cl_last.cache_read /\ ~cl_last.looked_up
          /\ CloudStateKept
          /\ ~cl_enabled

\* a disabled client was asked about a file whose SHA-256 is in its cache
C5_Witness ==
    /\ cl_last.op = "query_hash"
    /\ ~cl_last.enabled_before
    /\ LastKey \in CacheKeys(cl_cache)
    /\ cl_last.resp.status = "disabled"

\* the answers that are 'yes' or 'y' in any mix of upper and lower case
YesAnswers ==
    {<<a, b, c>> : a \in {"y", "Y"}, b \in {"e", "E"}, c \in {"s", "S"}}
        \cup {<<"y">>, <<"Y">>}

\* C6: enable with the notice shown enables the client exactly when the
\* answer is 'yes' or 'y' in any letter case; any other answer leaves the
\* enabled flag and everything else as it was.
C6_EnableNeedsConsent ==
    (cl_last.op = "enable" /\ cl_last.notice) =>
        /\ cl_last.answer \in YesAnswers => cl_enabled
        /\ cl_last.answer \notin YesAnswers => cl_enabled = cl_last.enabled_before
        /\ CloudStateKept

\* a disabled client stayed disabled on an answer that only starts like 'yes'
C6_Witness ==
    /\ cl_last.op = "enable" /\ cl_last.notice
    /\ ~cl_last.enabled_before
    /\ cl_last.answer = <<"y", "e", "s", "s">>
    /\ ~cl_enabled

\* C9: an enabled client in offline mode looks nothing up remotely; it returns
\* the cached result with status 'found' when the file's SHA-256 is a key of
\* the cache, and 'not_found' otherwise.
C9_OfflineAnswersFromCache ==
    (cl_last.op = "query_hash" /\ cl_last.enabled_before /\ cl_last.offline_before) =>
        /\ ~cl_last.looked_up
        /\ IF LastKey \in CacheKeys(cl_last.cache_before)
           THEN /\ cl_last.resp.status = "found"
                /\ cl_last.resp.result = CacheGet(cl_last.cache_before, LastKey)
           ELSE cl_last.resp.status = "not_found"

\* response['result']['status'], the classification a caller reads
Classification(resp) == IF resp.result = NoResult THEN "none" ELSE Head(resp.result)

\* C10: an enabled, online client answers a hash that is in the cache from the
\* cache without a remote lookup, and a hash that is not by one remote lookup
\* whose result it stores under the hash and saves; either way the answer
\* reports the classification the lookup gives for that hash.
C10_CacheFirstLookup ==
    (cl_last.op = "query_hash" /\ cl_last.enabled_before /\ ~cl_last.offline_before) =>
        /\ IF LastKey \in CacheKeys(cl_last.cache_before)
           THEN ~cl_last.looked_up /\ CloudStateKept
           ELSE /\ cl_last.looked_up
                /\ LastKey \in CacheKeys(cl_cache)
                /\ cl_cache_file = CacheFile(cl_cache)
        /\ Classification(cl_last.resp) = SimulateCloudResponse(Sha256(cl_last.file))

----------------------------------------------------------------------------
(* Update manager claims *)

\* C7: without recorded consent and without force, update_tool backs up,
\* downloads and installs only when the prompt is answered 'yes' or 'y'; on
\* any other answer it returns False and the installation, the backup
\* directory and the temp directory are as they were.
C7_UpdateConsentGate ==
    (upd_last.op = "update_tool" /\ ~upd_last.force /\ ~upd_last.consent
        /\ upd_last.answer \notin YesAnswers) =>
            /\ ~upd_last.returned
            /\ upd_last.changed = {}
            /\ ~upd_last.backup_taken /\ ~upd_last.copying
            /\ inst = upd_last.inst_before

\* an update was refused at the prompt by an answer that only starts like 'yes'
C7_Witness ==
    /\ upd_last.op = "update_tool"
    /\ ~upd_last.force /\ ~upd_last.consent
    /\ upd_last.answer = <<"y", "e">>
    /\ ~upd_last.returned
    /\ upd_last.changed = {}

\* C8: when update_tool returns False after the install step started copying
\* files, the essential paths have the contents they had before the update.
C8_RollbackRestoresInstallation ==
    (upd_last.op = "update_tool" /\ ~upd_last.returned /\ upd_last.copying) =>
        \A p \in InstPaths : Essential(p) => inst[p] = upd_last.inst_before[p]

----------------------------------------------------------------------------
(* Scheduler claims *)

\* C11: whatever start() and stop() calls are made on a scheduler, at most one
\* of its clock-loop threads is in the loop at any time, and no job runs in
\* two threads at once.
C11_SingleClockLoop ==
    /\ Cardinality(Alive(sch_threads)) <= 1
    /\ \A t, u \in ThreadIds :
          (sch_threads[t].pc = "job" /\ sch_threads[u].pc = "job"
              /\ sch_threads[t].job = sch_threads[u].job) => t = u

\* C12: run_scan_now('daily' | 'weekly') that returns True has run the scan,
\* started or not: with an existing path configured for the type,
\* scheduled_scans_run is one more than before the call.
C12_RunScanNowRunsScan ==
    (sch_last.op = "run_scan_now" /\ sch_last.arg \in ScanTypes /\ sch_last.returned
        /\ \E i \in DOMAIN sch_config[sch_last.arg].paths :
              PathExists(fs, sch_config[sch_last.arg].paths[i])) =>
        sch_last.after.runs = sch_last.before.runs + 1

\* C18: stop() on a scheduler that is not running returns False and leaves the
\* running flag, the stop event, the registered jobs, the configuration, the
\* statistics and the threads as they were; start() on a running scheduler
\* returns False and registers no job and starts no thread.
C18_SchedulerIdempotence ==
    /\ (sch_last.op = "stop" /\ ~sch_last.before.running) =>
          (~sch_last.returned /\ sch_last.after = sch_last.before)
    /\ (sch_last.op = "start" /\ sch_last.before.running) =>
          (~sch_last.returned /\ sch_last.after = sch_last.before)

\* stop() was called on a scheduler that an earlier stop() had stopped while
\* its loop thread was still in the loop
C18_Witness ==
    /\ sch_last.op = "stop"
    /\ ~sch_last.before.running
    /\ sch_last.before.stop_event
    /\ sch_last.before.alive # {}
    /\ ~sch_last.returned

\* C21: a firing of a job over an existing path adds one to
\* scheduled_scans_run and adds to total_files_scanned and threats_found the
\* files scanned and the threats found during that firing, whatever was
\* scanned before with the same scanner.
C21_FiringAddsItsOwnCounts ==
    (sch_fire.fired /\ sch_fire.existing) =>
        /\ sch_fire.added_runs = 1
        /\ sch_fire.added_files = sch_fire.scanned
        /\ sch_fire.added_threats = sch_fire.found

----------------------------------------------------------------------------
(* Service lifecycle claims *)

\* C13: when stop() returns on a running service, no monitor and no scheduler
\* of the service is running, the pid file is gone and running is false; a
\* stop() on a service that is not running returns False and changes nothing.
C13_StopTearsDown ==
    /\ (svc_call.op = "stop" /\ svc_call.before.running) =>
          /\ svc_call.returned
          /\ ~svc_call.after.running
          /\ ~svc_call.after.pid_file
          /\ ~svc_call.after.monitor_running
          /\ ~svc_call.after.sched_running
          /\ svc_call.after.leaked = [monitors |-> 0, schedulers |-> 0]
    /\ (svc_call.op = "stop" /\ ~svc_call.before.running) =>
          (~svc_call.returned /\ svc_call.after = svc_call.before)

C23_RunBlocksAfterStart ==
    (svc_call.op = "run" /\ svc_call.arg = "start") => svc_call.returned

\* C27: after every start() or stop() call, failed or not, the pid marker
\* file exists exactly when running is true; a start() that fails leaves
\* running false, no pid file and no monitor or scheduler running.
C27_PidFileIffRunning ==
    (svc_call.op \in {"start", "stop"}) =>
        /\ svc_call.after.pid_file = svc_call.after.running
        /\ (svc_call.op = "start" /\ ~svc_call.before.running /\ ~svc_call.returned) =>
              /\ ~svc_call.after.running
              /\ ~svc_call.after.monitor_running
              /\ ~svc_call.after.sched_running

\* C28: once stop() has returned, no scheduler started by the service is
\* running, referenced or not, whatever start, configure and stop calls
\* came before.
C28_NoSchedulerSurvivesStop ==
    (svc_call.op = "stop" /\ svc_call.returned) =>
        /\ ~svc_call.after.sched_running
        /\ svc_call.after.leaked.schedulers = 0

----------------------------------------------------------------------------
(* File monitor claims *)

\* C15: for every delivered event kind (create, modify, delete, and the
\* delete/create pair of a rename) each raising callback adds exactly one to
\* the error count and the callbacks that follow it are still called.
C15_CallbackErrorsCounted ==
    (mon_last.kind # "none") =>
        /\ mon_last.errors_after =
              mon_last.errors_before + Raised(mon_last.invoked, mon_last.raising)
        /\ mon_last.invoked = Invoked(mon_last.kind, mon_last.is_directory)

----------------------------------------------------------------------------
(* Traversal depth claims *)

\* the number of directories between the root and a file
LevelsBelowRoot(file) == Len(file) - Len(WalkRoot) - 1

\* C16: with max_depth = d >= 1, traverse(root) yields no file more than d
\* directory levels below the root; with max_depth unset it yields the files
\* of every level.
C16_DepthLimit ==
    walk_yielded.done =>
        IF walk_max_depth.is_none
        THEN walk_yielded.files = {FileIn(DirAt(k)) : k \in walk_levels}
        ELSE \A file \in walk_yielded.files :
                LevelsBelowRoot(file) <= walk_max_depth.value

----------------------------------------------------------------------------
(* Thread manager claims *)

\* C17: for every requested T, 0 and negative numbers and numbers above
\* MAX_THREADS included, max_workers = max(MIN_THREADS, min(T, MAX_THREADS));
\* only None falls back to DEFAULT_THREADS, clamped the same way.
C17_ThreadClamp ==
    pool_last.made =>
        pool_last.max_workers =
            Clamp(thread_config, IF pool_last.requested.is_none
                                 THEN thread_config.DEFAULT_THREADS
                                 ELSE pool_last.requested.value)

----------------------------------------------------------------------------
(* Signature store claims *)

\* C19: export_signatures() followed by import_signatures() of the document
\* into a freshly initialized store leaves that store with the
\* get_signature_count() the exporting store had.
C19_ExportImportRoundTrip ==
    sig_round.done => sig_round.imported_into = sig_round.exported_from

----------------------------------------------------------------------------
(* Advanced heuristic claims *)

\* the suspicious-strings points the statement gives for a distinct-match count
StatedStringsPoints(match_count) ==
    IF match_count >= 10 THEN 25
    ELSE IF match_count >= 5 THEN 20
    ELSE IF match_count >= 3 THEN 15
    ELSE IF match_count >= 1 THEN 10
    ELSE 0

\* C20: for every readable file analyze_file() returns normally with
\* risk_score = min(100, entropy + extension-mismatch + suspicious-strings +
\* packer points), an integer in 0..100, and the contributing signals; the
\* suspicious-strings points are 25, 20, 15, 10 for at least 10, 5, 3, 1
\* distinct matches and 0 when nothing matches.
C20_RiskScore ==
    (heur_result.outcome # "none") =>
        /\ heur_result.outcome = "returned"
        /\ heur_result.risk_score =
              Min(100, EntropyScore(heur_file) + MismatchScore(heur_file)
                       + StatedStringsPoints(heur_file.matches) + PackerScore(heur_file))
        /\ heur_result.risk_score \in 0..100
        /\ \A i \in 1..Len(heur_result.signals) : heur_result.signals[i].score > 0

----------------------------------------------------------------------------
(* Claims about the jobs of the service's scheduler *)

\* the registered jobs of a type
JobsOfType(type) ==
    {i \in DOMAIN job_registered : job_registered[i].type = type}

\* C22: after a successful start() of the service the daily (weekly) job is
\* registered at the configured time, mode and paths when
\* scheduled_scans.daily.enabled (weekly.enabled) is true, and no such job is
\* registered when it is false.
C22_EnabledJobsRegistered ==
    job_started =>
        \A type \in {"daily", "weekly"} :
            LET cfg == job_config.scheduled_scans[type]
            IN IF cfg.enabled /\ (type = "weekly" => IsWeekday(cfg.day))
               THEN \E i \in JobsOfType(type) :
                        /\ job_registered[i].time = cfg.time
                        /\ job_registered[i].mode = cfg.mode
                        /\ job_registered[i].paths = cfg.paths
               ELSE cfg.enabled \/ JobsOfType(type) = {}

\* the events between the old and the new snapshot of a poll
ChangesBetween(old_states, new_states) ==
    {[kind |-> EventOf(old_states, new_states, p), path |-> p] :
        p \in {q \in DOMAIN new_states : EventOf(old_states, new_states, q) # "none"}}
    \cup {[kind |-> "deleted", path |-> p] : p \in DeletedPaths(old_states, new_states)}

\* C24: after each poll the stored snapshot is the snapshot just taken, and
\* every creation, modification and deletion since the previous snapshot got
\* exactly one callback at that poll, whatever the callbacks did.
C24_PollReportsOnce ==
    poll_last.polled =>
        /\ file_states = poll_last.new
        /\ {poll_last.calls[i] : i \in 1..Len(poll_last.calls)}
               = ChangesBetween(poll_last.old, poll_last.new)
        /\ Len(poll_last.calls) = Cardinality(ChangesBetween(poll_last.old, poll_last.new))

\* the order of the verdicts of a per-file task
StatusRank(status) ==
    IF status = "infected" THEN 2 ELSE IF status = "suspicious" THEN 1 ELSE 0

\* C25: the status of a per-file result is the highest verdict among the
\* detectors that fired: a result that carries a signature or a rule threat is
\* 'infected', also when it carries a heuristic threat, and one that carries
\* a heuristic threat is at least 'suspicious'.
C25_StatusOnlyEscalates ==
    \A i \in DOMAIN last.results :
        /\ ("signature" \in Range(last.results[i].threats)
              \/ "yara" \in Range(last.results[i].threats))
           => StatusRank(last.results[i].status) = 2
        /\ "heuristic" \in Range(last.results[i].threats)
           => StatusRank(last.results[i].status) >= 1

\* C26: scan_files returns exactly one result per submitted path, whatever
\* the tasks and the progress callback did.
C26_OneResultPerPath ==
    tmgr_last.op = "scan_files" =>
        /\ Len(tmgr_last.results) = tmgr_last.items
        /\ \A p \in 1..tmgr_last.items :
              Cardinality({i \in DOMAIN tmgr_last.results :
                              tmgr_last.results[i].item = p}) = 1

\* C29: after any call of the thread manager, completed_tasks + failed_tasks
\* is at most total_tasks, and total_tasks is the number of tasks submitted
\* since construction.
C29_StatsAddUp ==
    /\ tmgr_stats.completed_tasks + tmgr_stats.failed_tasks <= tmgr_stats.total_tasks
    /\ tmgr_stats.total_tasks = tmgr_submitted

\* C30: constructing a SignatureDetector again over the same kept store leaves
\* get_signature_count() as it was after the construction before.
C30_ConstructionIdempotent ==
    sig_built.again => sig_built.after = sig_built.before

====
